---- MODULE Spec2Model ----
(***************************************************************************)
(* A model of the Fidle continuous-integration tooling:                    *)
(*   - fidle/cookci.py    : run_profile and the CI report bookkeeping      *)
(*   - fidle/cookindex.py : get_files, get_catalog, build_default_profile  *)
(*   - DCGAN/modules/models/DCGAN.py : DCGAN.train_step, save, reload      *)
(*   - DCGAN/modules/callbacks/ImagesCallback.py : ImagesCallback          *)
(*                                                                         *)
(* Python strings are sequences of one-character strings, so that          *)
(* concatenation, splitext, upper/lower, regular-expression matching and   *)
(* path resolution are computed rather than assumed.  A dict whose keys    *)
(* are such strings is a sequence of <<key, value>> pairs in insertion     *)
(* order; a dict with fixed literal keys is a TLA+ record.                 *)
(***************************************************************************)
EXTENDS Integers, Sequences, FiniteSets, TLC

VARIABLES
    \* ---- inputs of run_profile (fixed during a session)
    profile,        \* the loaded YAML profile: ordered dict run_id -> about
    filter,         \* the filter regular expression
    reset,          \* the reset argument
    top_dir,        \* the top_dir argument
    content,        \* the image files below the repository and the <img> of the notebooks
    \* ---- process and operating-system state
    pc,             \* position of run_profile
    error,          \* the exception that ended run_profile, or NoError
    idx,            \* position of the for loop in notebooks
    env,            \* os.environ
    cwd,            \* current working directory (absolute, list of components)
    home,           \* the directory run_profile was started in
    dirs,           \* existing directories
    clock,          \* datetime.datetime.now()
    \* ---- module globals of cookci
    start_time, end_time, report_json_path, report_error_path,
    \* ---- files
    report_file,    \* content of the JSON report, or NoFile
    error_file,     \* lines of the error file, or NoFile
    saved,          \* files written by the save steps: <<directory, name>>
    \* ---- locals of run_profile that live across steps
    config, notebooks, to_unset, output_name, happy_end,
    \* ---- what the external notebook kernel was asked to run
    kernel_runs,
    \* ---- cookindex
    tree,           \* the files below top_dir: a set of <<directory, name>>
    directories,    \* the directories argument of get_files
    files_list,     \* the files_list argument of get_catalog
    catalog,        \* the catalog returned by get_catalog
    catalog_file,   \* config.CATALOG_FILE: the catalog saved by build_catalog, or NoFile
    ipc,            \* position of the cookindex pipeline
    \* ---- DCGAN
    d_weights,      \* discriminator.trainable_weights
    g_weights,      \* generator.trainable_weights
    gan_pc,         \* position of train_step
    gan_calls,      \* calls of train_step that have returned
    update_log,     \* the apply_gradients calls so far, by optimizer
    batch_size,     \* tf.shape(real_images)[0]
    labels,         \* the labels of the discriminator step, in hundredths, rounded down
    misleading_labels, \* the labels of the generator step, in hundredths
    combined_images,   \* the rows of combined_images: "generated" or "real"
    \* ---- DCGAN.save / DCGAN.reload and ImagesCallback
    gan_dirs,       \* existing directories of the training host
    gan_files,      \* files written: a set of <<path, content>>
    io_call,        \* the last call of save or reload and how it ended
    save_log,       \* the weights each save call was given, by filename
    callback,       \* the attributes of the ImagesCallback, or NoCallback
    img_epoch,      \* the number of the epoch that ends next
    img_writes      \* the names on_epoch_end wrote, one sequence per epoch

vars == << profile, filter, reset, top_dir, content, pc, error, idx, env, cwd, home, dirs,
           clock, start_time, end_time, report_json_path, report_error_path,
           report_file, error_file, saved, config, notebooks, to_unset,
           output_name, happy_end, kernel_runs,
           tree, directories, files_list, catalog, catalog_file, ipc,
           d_weights, g_weights, gan_pc, gan_calls, update_log,
           batch_size, labels, misleading_labels, combined_images,
           gan_dirs, gan_files, io_call, save_log,
           callback, img_epoch, img_writes >>

ciVars == << profile, filter, reset, top_dir, content, pc, error, idx, env, cwd, home, dirs,
             clock, start_time, end_time, report_json_path, report_error_path,
             report_file, error_file, saved, config, notebooks, to_unset,
             output_name, happy_end, kernel_runs >>

indexVars == << tree, directories, files_list, catalog, catalog_file, ipc >>

ganVars == << d_weights, g_weights, gan_pc, gan_calls, update_log,
           batch_size, labels, misleading_labels, combined_images >>

saveVars == << gan_dirs, gan_files, io_call, save_log >>

imgVars == << callback, img_epoch, img_writes >>

-----------------------------------------------------------------------------
(* Bounds of the model.                                                    *)

MaxEntries == 2      \* notebooks in a profile
MaxDirs == 2         \* directories given to get_files
MaxTreeFiles == 3    \* files below top_dir
MaxFiles == 3        \* length of files_list given to get_catalog
MaxCalls == 2        \* calls of train_step
MaxWeight == 2       \* weights live in -MaxWeight..MaxWeight
MaxBatch == 2        \* images in a batch

-----------------------------------------------------------------------------
(* Strings.                                                                *)

LowerAlpha == << "a","b","c","d","e","f","g","h","i","j","k","l","m",
                 "n","o","p","q","r","s","t","u","v","w","x","y","z" >>
UpperAlpha == << "A","B","C","D","E","F","G","H","I","J","K","L","M",
                 "N","O","P","Q","R","S","T","U","V","W","X","Y","Z" >>

\* the characters of the model in code-point order (str comparison)
CodePoints == << " ", ".", "/", "0","1","2","3","4","5","6","7","8","9", ":", "=" >>
              \o UpperAlpha \o << "_" >> \o LowerAlpha

Pos(seq, c) == CHOOSE i \in 1..Len(seq) : seq[i] = c
In(seq, c) == \E i \in 1..Len(seq) : seq[i] = c

UpperChar(c) == IF In(LowerAlpha, c) THEN UpperAlpha[Pos(LowerAlpha, c)] ELSE c
LowerChar(c) == IF In(UpperAlpha, c) THEN LowerAlpha[Pos(UpperAlpha, c)] ELSE c
upper(s) == [i \in 1..Len(s) |-> UpperChar(s[i])]
lower(s) == [i \in 1..Len(s) |-> LowerChar(s[i])]

Ord(c) == Pos(CodePoints, c)

startswith(s, p) == Len(p) <= Len(s) /\ SubSeq(s, 1, Len(p)) = p
endswith(s, p) == Len(p) <= Len(s) /\ SubSeq(s, Len(s) - Len(p) + 1, Len(s)) = p

\* s < t for Python strings
RECURSIVE StrLess(_, _)
StrLess(s, t) ==
    IF t = << >> THEN FALSE
    ELSE IF s = << >> THEN TRUE
    ELSE IF s[1] = t[1] THEN StrLess(Tail(s), Tail(t))
    ELSE Ord(s[1]) < Ord(t[1])

\* str.replace(old, new): every non-overlapping occurrence, left to right
RECURSIVE replace(_, _, _)
replace(s, old, new) ==
    IF s = << >> THEN << >>
    ELSE IF startswith(s, old)
         THEN new \o replace(SubSeq(s, Len(old) + 1, Len(s)), old, new)
         ELSE << s[1] >> \o replace(Tail(s), old, new)

\* str.split(sep) for a one-character separator
RECURSIVE split(_, _)
split(s, sep) ==
    IF ~In(s, sep) THEN << s >>
    ELSE LET i == CHOOSE i \in 1..Len(s) : s[i] = sep /\ \A j \in 1..(i-1) : s[j] # sep
         IN << SubSeq(s, 1, i - 1) >> \o split(SubSeq(s, i + 1, Len(s)), sep)

\* str(n) for 0 <= n < 100
Digit(n) == << "0","1","2","3","4","5","6","7","8","9" >>[n + 1]
DecStr(n) == IF n < 10 THEN << Digit(n) >> ELSE << Digit(n \div 10), Digit(n % 10) >>

\* a YAML scalar is tagged with its type; str(value)
StrVal(v) == [t |-> "str", v |-> v]
IntVal(n) == [t |-> "int", v |-> n]
NoneVal == [t |-> "none"]
DictVal(d) == [t |-> "dict", v |-> d]
str(value) == IF value.t = "int" THEN DecStr(value.v) ELSE value.v

-----------------------------------------------------------------------------
(* Dicts with string keys: sequences of <<key, value>> in insertion order. *)

Keys(d) == { d[i][1] : i \in 1..Len(d) }
KeyList(d) == [i \in 1..Len(d) |-> d[i][1]]
Has(d, k) == \E i \in 1..Len(d) : d[i][1] = k
Get(d, k) == d[CHOOSE i \in 1..Len(d) : d[i][1] = k][2]
Put(d, k, v) ==
    IF Has(d, k) THEN [i \in 1..Len(d) |-> IF d[i][1] = k THEN << k, v >> ELSE d[i]]
    ELSE Append(d, << k, v >>)
Del(d, k) == SelectSeq(d, LAMBDA p : p[1] # k)

\* dicts with literal keys are records
RecPut(r, k, v) == [x \in (DOMAIN r) \cup {k} |-> IF x = k THEN v ELSE r[x]]

-----------------------------------------------------------------------------
(* Paths.  An absolute path is the list of its components; the root is     *)
(* << >>.                                                                  *)

\* os.path.normpath applied to the components that follow the prefix acc
RECURSIVE Norm(_, _)
Norm(acc, comps) ==
    IF comps = << >> THEN acc
    ELSE LET c == Head(comps) IN
         IF c = << >> \/ c = << "." >> THEN Norm(acc, Tail(comps))
         ELSE IF c = << ".", "." >>
              THEN Norm(IF acc = << >> THEN acc ELSE SubSeq(acc, 1, Len(acc) - 1),
                        Tail(comps))
              ELSE Norm(Append(acc, c), Tail(comps))

isabs(p) == Len(p) > 0 /\ p[1] = "/"

\* os.path.abspath(p) with current directory d
abspath(d, p) == Norm(IF isabs(p) THEN << >> ELSE d, split(p, "/"))

\* os.makedirs(path, exist_ok=True): the directory and its ancestors
Ancestors(path) == { SubSeq(path, 1, n) : n \in 0..Len(path) }

\* the kernel's resolution of a path: every directory on the way must exist
RECURSIVE Walk(_, _, _)
Walk(cur, comps, D) ==
    IF comps = << >> THEN [ok |-> TRUE, path |-> cur]
    ELSE LET c == Head(comps)
             nxt == IF c = << >> \/ c = << "." >> THEN cur
                    ELSE IF c = << ".", "." >>
                         THEN (IF cur = << >> THEN cur ELSE SubSeq(cur, 1, Len(cur) - 1))
                         ELSE Append(cur, c)
         IN IF nxt \in D THEN Walk(nxt, Tail(comps), D)
            ELSE [ok |-> FALSE, path |-> cur]

\* os.chdir(p) from directory d
chdir(d, p, D) == Walk(IF isabs(p) THEN << >> ELSE d, split(p, "/"), D)

\* os.path.splitext(p)[0]
splitext0(p) ==
    LET seps == { i \in 1..Len(p) : p[i] = "/" }
        dots == { i \in 1..Len(p) : p[i] = "." }
        sepIndex == IF seps = {} THEN 0 ELSE CHOOSE i \in seps : \A j \in seps : j <= i
        dotIndex == IF dots = {} THEN 0 ELSE CHOOSE i \in dots : \A j \in dots : j <= i
    IN IF dotIndex > sepIndex
          /\ \E k \in (sepIndex + 1)..(dotIndex - 1) : p[k] # "."
       THEN SubSeq(p, 1, dotIndex - 1)
       ELSE p

\* os.path.dirname(p) and os.path.basename(p)
LastSep(p) ==
    LET seps == { i \in 1..Len(p) : p[i] = "/" }
    IN IF seps = {} THEN 0 ELSE CHOOSE i \in seps : \A j \in seps : j <= i
basename(p) == SubSeq(p, LastSep(p) + 1, Len(p))
RECURSIVE rstripSep(_)
rstripSep(h) == IF h # << >> /\ h[Len(h)] = "/" THEN rstripSep(SubSeq(h, 1, Len(h) - 1)) ELSE h
dirname(p) ==
    LET h == SubSeq(p, 1, LastSep(p))
    IN IF h # << >> /\ \E i \in 1..Len(h) : h[i] # "/" THEN rstripSep(h) ELSE h

-----------------------------------------------------------------------------
(* Regular expressions: the subset made of literal characters, ".", and    *)
(* the quantifiers "*" and "+"; re.match(pattern, s) matches at the        *)
(* beginning of s and need not reach its end.                              *)

CharMatches(p, c) == p = "." \/ p = c

\* x, x*, x+ and their lazy forms x*?, x+? (which match the same strings)
RECURSIVE re_match(_, _)
re_match(pattern, s) ==
    IF pattern = << >> THEN TRUE
    ELSE LET q == IF Len(pattern) >= 2 /\ pattern[2] \in {"*", "+"} THEN pattern[2] ELSE "1"
             lazy == q # "1" /\ Len(pattern) >= 3 /\ pattern[3] = "?"
             rest == SubSeq(pattern, (IF q = "1" THEN 2 ELSE IF lazy THEN 4 ELSE 3),
                            Len(pattern))
             first == s # << >> /\ CharMatches(pattern[1], s[1])
         IN IF q = "1" THEN first /\ re_match(rest, Tail(s))
            ELSE IF q = "*" THEN re_match(rest, s) \/ (first /\ re_match(pattern, Tail(s)))
            ELSE first /\ re_match(<< pattern[1], "*" >> \o rest, Tail(s))

-----------------------------------------------------------------------------
(* Literals of cookci.py.                                                  *)

META == << "_","m","e","t","a","d","a","t","a","_" >>
DEFAULT == << "d","e","f","a","u","l","t" >>
NONE_LC == << "n","o","n","e" >>
ERROR_TAG == << "=","=","E","R","R","O","R","=","=" >>
OVERRIDE_PREFIX == << "F","I","D","L","E","_","O","V","E","R","R","I","D","E","_" >>
EXT_IPYNB == << ".","i","p","y","n","b" >>
EXT_HTML == << ".","h","t","m","l" >>
EXT_SH == << ".","s","h" >>
SEE == << "S","e","e"," ",":"," " >>
Unfinished == << "Unfinished..." >>
Empty == << >>
STATE_OK == << "ok" >>
STATE_ERROR == << "ERROR" >>

NoFile == [exists |-> FALSE, content |-> << >>]
File(c) == [exists |-> TRUE, content |-> c]

-----------------------------------------------------------------------------
(* chrono_* (cookci.py): times are ticks of the clock.                     *)

chrono_get_start(st, id) == << "T" >> \o DecStr(st[id])
chrono_get_end(et, id) == << "T" >> \o DecStr(et[id])
chrono_get_delay(st, et, id) == << "D" >> \o DecStr(et[id] - st[id])

-----------------------------------------------------------------------------
(* The CI report (cookci.py).                                              *)

\* init_ci_report: the report written at the start of a session
MutInitReport(old, metadata, rst, st) ==
    Put(<< >>, META, RecPut(RecPut(metadata, "reseted", rst), "start", chrono_get_start(st, "main")))
InitReport(old, metadata, rst, st) ==
    LET report == IF rst = FALSE /\ old.exists THEN old.content ELSE << >>
        md == RecPut(RecPut(metadata, "reseted", rst), "start", chrono_get_start(st, "main"))
    IN Put(report, META, md)

\* init_ci_report: the error file is removed when it exists
InitErrorFile(old) == NoFile

\* update_ci_report(..., start=True): the entry of a starting notebook
StartEntry(notebook_id, notebook_dir, notebook_src, notebook_out, st) ==
    [ id |-> notebook_id, dir |-> notebook_dir, src |-> notebook_src,
      out |-> notebook_out, start |-> chrono_get_start(st, "nb"),
      end |-> Empty, duration |-> Unfinished, state |-> Unfinished ]

MutUpdateStart(report, run_id, notebook_id, notebook_dir, notebook_src, notebook_out, st) ==
    Put(report, run_id, StartEntry(notebook_id, notebook_dir, notebook_src, notebook_out, st))
UpdateStart(report, run_id, notebook_id, notebook_dir, notebook_src, notebook_out, st) ==
    LET r1 == Put(report, run_id,
                  StartEntry(notebook_id, notebook_dir, notebook_src, notebook_out, st))
        md == RecPut(RecPut(Get(r1, META), "end", Unfinished), "duration", Unfinished)
    IN Put(r1, META, md)

\* update_ci_report(..., end=True): state of a finished notebook
MutEndState(happy) == STATE_OK
EndState(happy) == IF happy THEN STATE_OK ELSE STATE_ERROR

UpdateEnd(report, run_id, notebook_out, happy, st, et) ==
    LET e == Get(report, run_id)
    IN Put(report, run_id,
           [e EXCEPT !.end = chrono_get_end(et, "nb"),
                     !.duration = chrono_get_delay(st, et, "nb"),
                     !.state = EndState(happy),
                     !.out = notebook_out])

\* update_ci_report: a line is appended to the error file when not happy_end
ErrorLine(notebook_dir, notebook_out) ==
    SEE \o notebook_dir \o << "/" >> \o notebook_out \o << " " >>

MutWritesErrorLine(happy) == TRUE
WritesErrorLine(happy) == ~happy

ErrorFileAfter(ef, notebook_dir, notebook_out, happy) ==
    IF WritesErrorLine(happy)
    THEN File(Append(ef.content, ErrorLine(notebook_dir, notebook_out)))
    ELSE ef

\* update_ci_report: load the report, update it, save it, append the error line
\* (nb is [id, dir, src, out]: the notebook_* arguments)
update_ci_report(report, ef, run_id, nb, start, end, happy, st, et) ==
    LET r1 == IF start
              THEN UpdateStart(report, run_id, nb.id, nb.dir, nb.src, nb.out, st)
              ELSE report
        r2 == IF end THEN UpdateEnd(r1, run_id, nb.out, happy, st, et) ELSE r1
    IN [report |-> r2, error_file |-> ErrorFileAfter(ef, nb.dir, nb.out, happy)]

\* complete_ci_report
CompleteReport(report, st, et) ==
    LET md == RecPut(RecPut(Get(report, META), "end", chrono_get_end(et, "main")),
                     "duration", chrono_get_delay(st, et, "main"))
    IN Put(report, META, md)

-----------------------------------------------------------------------------
(* Pieces of run_profile (cookci.py).                                      *)

\* the filter test of the for loop
MutFilterMatches(flt, run_id) == TRUE
FilterMatches(flt, run_id) == re_match(flt, run_id)

\* the output name of a run that ended well
MutOutputName(notebook_name, notebook_tag, cfg) == notebook_name \o cfg["output_tag"]
OutputName(notebook_name, notebook_tag, cfg) ==
    IF notebook_tag = DEFAULT THEN notebook_name \o cfg["output_tag"]
    ELSE notebook_name \o notebook_tag

\* the output name of a run that raised CellExecutionError
ErrorOutputName(notebook_name) == notebook_name \o ERROR_TAG

EnvName(notebook_id, name) == OVERRIDE_PREFIX \o upper(notebook_id) \o << "_" >> \o name

IsDefault(value) == value.t = "str" /\ value.v = DEFAULT

\* the override loop: st is [env, to_unset]
RECURSIVE ApplyOverrides(_, _, _)
ApplyOverrides(st, items, notebook_id) ==
    IF items = << >> THEN st
    ELSE LET name == Head(items)[1]
             value == Head(items)[2]
             env_name == EnvName(notebook_id, name)
         IN IF IsDefault(value) THEN ApplyOverrides(st, Tail(items), notebook_id)
            ELSE ApplyOverrides([env |-> Put(st.env, env_name, str(value)),
                                 to_unset |-> Append(st.to_unset, env_name)],
                                Tail(items), notebook_id)

\* the environment_vars loop
RECURSIVE SetEnvironment(_, _)
SetEnvironment(e, items) ==
    IF items = << >> THEN e
    ELSE SetEnvironment(Put(e, Head(items)[1], str(Head(items)[2])), Tail(items))

\* the cleaning loop
RECURSIVE MutUnsetAll(_, _)
MutUnsetAll(e, names) ==
    IF Len(names) <= 1 THEN e ELSE MutUnsetAll(Del(e, Head(names)), Tail(names))
RECURSIVE UnsetAll(_, _)
UnsetAll(e, names) ==
    IF names = << >> THEN e ELSE UnsetAll(Del(e, Head(names)), Tail(names))

\* whether a save step writes its file
WritesOutput(output_dir) == lower(output_dir) # NONE_LC

-----------------------------------------------------------------------------
(* The world run_profile is started in.                                    *)

REPO == << "f" >>
D_CI == << "c","i" >>
D_LR == << "L","R" >>
D_G == << "G" >>
D_N == << "n" >>
D_GN == << "G","/","n" >>
NB_A == << "a",".","i","p","y","n","b" >>
NB_B == << "b",".","v","2",".","i","p","y","n","b" >>

\* the repository: /f, /f/ci (where the session starts), /f/LR, /f/G/n
InitialDirs == { << >>, << REPO >>, << REPO, D_CI >>, << REPO, D_LR >>,
                 << REPO, D_G >>, << REPO, D_G, D_N >> }
StartDir == << REPO, D_CI >>
SourceNotebooks == { << REPO, D_LR, NB_A >>, << REPO, D_G, D_N, NB_B >> }

\* the src attributes of the <img> tags of the markdown cells of a notebook: the
\* header of the Fidle notebooks refers to an image file, relative to the
\* directory of run_profile; an embedded image is a 'data:' URI
IMG_HEADER == << ".",".","/","i","m","g","/","h",".","s","v","g" >>
IMG_DATA == << "d","a","t","a",":","i","m","a","g","e" >>
DATA_PREFIX == << "d","a","t","a",":" >>
HeaderFile == << REPO, << "i","m","g" >>, << "h",".","s","v","g" >> >>

NoImages == [nb \in SourceNotebooks |-> << >>]
DataImages == [nb \in SourceNotebooks |->
                 IF nb = << REPO, D_G, D_N, NB_B >> THEN << IMG_DATA >> ELSE << >>]
HeaderImages == [nb \in SourceNotebooks |->
                   IF nb = << REPO, D_LR, NB_A >> THEN << IMG_DATA, IMG_HEADER >>
                   ELSE << IMG_DATA >>]

NoContent == [images |-> {}, img_src |-> NoImages]
Contents == { [images |-> {}, img_src |-> DataImages],
              [images |-> { HeaderFile }, img_src |-> HeaderImages],
              [images |-> {}, img_src |-> HeaderImages] }

HOST == << "h","o","s","t" >>
PROFILE_NAME == << "c","i",".","y","m","l" >>

TopDirs == { << ".", "." >>, << "/", "f" >> }

Filters == { << ".", "*" >>,
             << "N","b","_" >>,
             << "N","b","_","A" >>,
             << ".", "*", "B" >> }

\* '_metadata_' blocks
FullConfig(out_ipynb, out_html) ==
    [ version |-> << "1",".","0" >>,
      output_tag |-> << "=","=","c","i","=","=" >>,
      output_ipynb |-> out_ipynb,
      output_html |-> out_html,
      report_json |-> << "r","u","n","/","c","i",".","j","s","o","n" >>,
      report_error |-> << "r","u","n","/","c","i",".","e","r","r" >>,
      environment_vars |-> << << << "L","O","G" >>, IntVal(2) >> >> ]

OUT_NB == << "r","u","n","/","n","b" >>
OUT_HTML == << "r","u","n","/","h","t","m","l" >>

Configs ==
    { FullConfig(OUT_NB, OUT_HTML),
      FullConfig(<< "N","o","n","e" >>, OUT_HTML),
      FullConfig(OUT_NB, << "N","O","N","E" >>),
      [ k \in (DOMAIN FullConfig(OUT_NB, OUT_HTML)) \ {"environment_vars"}
          |-> FullConfig(OUT_NB, OUT_HTML)[k] ] }

\* profile entries
RUN_A == << "N","b","_","A" >>
RUN_B == << "N","b","_","B" >>
RUN_C == << "N","b","_","C" >>
RUN_G == << "G","n" >>
OV_X == << "x" >>
OV_Y == << "y" >>
TAG_T == << "=","=","t","=","=" >>

EntryPool ==
    { << RUN_A, [ notebook_id |-> << "l","r","1" >>, notebook_dir |-> D_LR,
                  notebook_src |-> NB_A, notebook_tag |-> DEFAULT,
                  overrides |-> DictVal(<< << OV_X, StrVal(DEFAULT) >>,
                                           << OV_Y, IntVal(5) >> >>) ] >>,
      << RUN_B, [ notebook_id |-> << "L","R","1" >>, notebook_dir |-> D_LR,
                  notebook_src |-> NB_A, notebook_tag |-> TAG_T,
                  overrides |-> DictVal(<< << OV_Y, StrVal(<< "z" >>) >>,
                                           << OV_X, StrVal(<< "w" >>) >> >>) ] >>,
      << RUN_C, [ notebook_id |-> << "l","r","2" >>, notebook_dir |-> D_LR,
                  notebook_src |-> NB_A, notebook_tag |-> DEFAULT,
                  overrides |-> NoneVal ] >>,
      << RUN_G, [ notebook_id |-> << "g","1" >>, notebook_dir |-> D_GN,
                  notebook_src |-> NB_B, notebook_tag |-> DEFAULT ] >> }

\* lists of distinct entries, at most n long
RECURSIVE EntryLists(_)
EntryLists(n) ==
    IF n = 0 THEN { << >> }
    ELSE LET shorter == EntryLists(n - 1)
         IN shorter \cup { Append(l, e) : l \in shorter, e \in EntryPool }

Distinct(l) == \A i, j \in 1..Len(l) : i # j => l[i] # l[j]

Profiles == { << << META, cfg >> >> \o l :
                cfg \in Configs, l \in { x \in EntryLists(MaxEntries) : Distinct(x) } }

\* what an earlier session left behind
OldEntry(st) ==
    [ id |-> << "l","r","1" >>, dir |-> D_LR, src |-> NB_A,
      out |-> << "a","=","=","c","i","=","=" >>, start |-> << "T","0" >>,
      end |-> IF st = STATE_OK THEN << "T","1" >> ELSE Empty,
      duration |-> IF st = STATE_OK THEN << "D","1" >> ELSE Unfinished,
      state |-> st ]

OldReport ==
    << << META, [ version |-> << "0",".","9" >>, reseted |-> TRUE,
                  end |-> Unfinished, duration |-> Unfinished ] >>,
       << RUN_A, OldEntry(STATE_OK) >>,
       << RUN_B, OldEntry(Unfinished) >> >>

OldErrorFile == File(<< ErrorLine(D_LR, << "o","l","d" >>) >>)

Leftovers == { [report |-> NoFile, errors |-> NoFile],
               [report |-> File(OldReport), errors |-> OldErrorFile] }

NoError == "none"

-----------------------------------------------------------------------------
(* Idle values of the parts a specification does not exercise.             *)

CiIdle ==
    /\ profile = << >> /\ filter = << >> /\ reset = FALSE /\ top_dir = << >>
    /\ content = NoContent
    /\ pc = "idle" /\ error = NoError /\ idx = 1 /\ env = << >>
    /\ cwd = StartDir /\ home = StartDir /\ dirs = InitialDirs /\ clock = 0
    /\ start_time = << >> /\ end_time = << >>
    /\ report_json_path = << >> /\ report_error_path = << >>
    /\ report_file = NoFile /\ error_file = NoFile /\ saved = {}
    /\ config = << >> /\ notebooks = << >> /\ to_unset = << >>
    /\ output_name = << >> /\ happy_end = TRUE /\ kernel_runs = << >>

IndexIdle ==
    /\ tree = {} /\ directories = << >>
    /\ files_list = << >> /\ catalog = << >> /\ ipc = "idle"
    /\ catalog_file = NoFile

GanIdle ==
    /\ d_weights = 0 /\ g_weights = 0
    /\ gan_pc = "idle" /\ gan_calls = 0 /\ update_log = << >>
    /\ batch_size = 0 /\ labels = << >> /\ misleading_labels = << >>
    /\ combined_images = << >>

\* the training host: its working directory exists, nothing is saved yet
GAN_CWD == << << "w" >> >>
NoCall == [op |-> "none"]
NoCallback == [made |-> FALSE]

SaveIdle ==
    /\ gan_dirs = Ancestors(GAN_CWD) /\ gan_files = {}
    /\ io_call = NoCall /\ save_log = << >>

ImgIdle ==
    /\ callback = NoCallback /\ img_epoch = 0 /\ img_writes = << >>

-----------------------------------------------------------------------------
(* run_profile (cookci.py), step by step.                                  *)

Init ==
    /\ profile \in Profiles
    /\ filter \in Filters
    /\ reset \in BOOLEAN
    /\ top_dir \in TopDirs
    /\ content \in Contents
    /\ \E l \in Leftovers : report_file = l.report /\ error_file = l.errors
    /\ pc = "start" /\ error = NoError /\ idx = 1 /\ env = << >>
    /\ cwd = StartDir /\ home = StartDir /\ dirs = InitialDirs /\ clock = 0
    /\ start_time = << >> /\ end_time = << >>
    /\ report_json_path = << >> /\ report_error_path = << >>
    /\ saved = {}
    /\ config = << >> /\ notebooks = << >> /\ to_unset = << >>
    /\ output_name = << >> /\ happy_end = TRUE /\ kernel_runs = << >>
    /\ IndexIdle /\ GanIdle /\ SaveIdle /\ ImgIdle

ConfigHas(cfg, keys) == \A k \in keys : k \in DOMAIN cfg

\* lines 65-100: load the profile, initialise the report, set the environment
RunProfileBegin ==
    /\ pc = "start"
    /\ clock' = clock + 1
    /\ start_time' = RecPut(start_time, "main", clock)
    /\ LET has_meta == Has(profile, META)
           cfg0 == IF has_meta THEN Get(profile, META) ELSE << >>
           metadata == RecPut(RecPut(cfg0, "host", HOST), "profile", PROFILE_NAME)
           paths_ok == has_meta /\ ConfigHas(cfg0, {"report_json", "report_error"})
           report_json == top_dir \o << "/" >> \o metadata["report_json"]
           report_error == top_dir \o << "/" >> \o metadata["report_error"]
           md == RecPut(RecPut(metadata, "reseted", reset), "start",
                        chrono_get_start(start_time', "main"))
           rest_ok == ConfigHas(cfg0, {"output_ipynb", "output_html", "environment_vars"})
       IN IF ~paths_ok
          THEN /\ pc' = "aborted" /\ error' = "KeyError"
               /\ UNCHANGED << config, notebooks, report_json_path, report_error_path,
                               report_file, error_file, dirs, env >>
          ELSE /\ config' = md
               /\ notebooks' = Del(profile, META)
               /\ report_json_path' = abspath(cwd, report_json)
               /\ report_error_path' = abspath(cwd, report_error)
               /\ dirs' = dirs \cup Ancestors(abspath(cwd, dirname(report_json)))
               /\ report_file' = File(InitReport(report_file, metadata, reset, start_time'))
               /\ error_file' = InitErrorFile(error_file)
               /\ IF rest_ok
                  THEN /\ env' = SetEnvironment(env, md["environment_vars"])
                       /\ pc' = "loop" /\ error' = NoError
                  ELSE /\ env' = env
                       /\ pc' = "aborted" /\ error' = "KeyError"
    /\ home' = cwd
    /\ UNCHANGED << profile, filter, reset, top_dir, content, idx, cwd, end_time, saved,
                    to_unset, output_name, happy_end, kernel_runs >>
    /\ UNCHANGED indexVars /\ UNCHANGED ganVars /\ UNCHANGED saveVars /\ UNCHANGED imgVars

\* lines 105-110: an entry whose run_id does not match the filter is skipped
SkipNotebook ==
    /\ pc = "loop" /\ idx <= Len(notebooks)
    /\ ~FilterMatches(filter, notebooks[idx][1])
    /\ idx' = idx + 1
    /\ UNCHANGED << profile, filter, reset, top_dir, content, pc, error, env, cwd, home, dirs,
                    clock, start_time, end_time, report_json_path, report_error_path,
                    report_file, error_file, saved, config, notebooks, to_unset,
                    output_name, happy_end, kernel_runs >>
    /\ UNCHANGED indexVars /\ UNCHANGED ganVars /\ UNCHANGED saveVars /\ UNCHANGED imgVars

AboutKeys == {"notebook_id", "notebook_dir", "notebook_src", "notebook_tag"}

\* lines 116-160: what happens to a matching entry before its execution starts
Prepare(about, cfg, d, e, D) ==
    LET keys_ok == ConfigHas(about, AboutKeys)
                   /\ (about["notebook_tag"] = DEFAULT => "output_tag" \in DOMAIN cfg)
        notebook_id == about["notebook_id"]
        notebook_dir == about["notebook_dir"]
        notebook_src == about["notebook_src"]
        notebook_name == splitext0(notebook_src)
        overrides == IF "overrides" \in DOMAIN about THEN about["overrides"] ELSE NoneVal
        oname == OutputName(notebook_name, about["notebook_tag"], cfg)
        target == top_dir \o << "/" >> \o notebook_dir
        cd1 == chdir(d, target, D)
        ov == IF overrides.t = "dict"
              THEN ApplyOverrides([env |-> e, to_unset |-> << >>], overrides.v, notebook_id)
              ELSE [env |-> e, to_unset |-> << >>]
        cd2 == chdir(cd1.path, target, D)
        readable == abspath(cd2.path, notebook_src) \in SourceNotebooks
    IN IF ~keys_ok
       THEN [ok |-> FALSE, error |-> "KeyError", cwd |-> d, env |-> e,
             to_unset |-> << >>, output_name |-> << >>]
       ELSE IF ~cd1.ok
       THEN [ok |-> FALSE, error |-> "FileNotFoundError", cwd |-> d, env |-> e,
             to_unset |-> << >>, output_name |-> oname]
       ELSE IF ~cd2.ok
       THEN [ok |-> FALSE, error |-> "FileNotFoundError", cwd |-> cd1.path, env |-> ov.env,
             to_unset |-> ov.to_unset, output_name |-> oname]
       ELSE IF ~readable
       THEN [ok |-> FALSE, error |-> "FileNotFoundError", cwd |-> cd2.path, env |-> ov.env,
             to_unset |-> ov.to_unset, output_name |-> oname]
       ELSE [ok |-> TRUE, error |-> NoError, cwd |-> cd2.path, env |-> ov.env,
             to_unset |-> ov.to_unset, output_name |-> oname]

\* lines 112-165: a matching entry is prepared and its start is reported
StartNotebook ==
    /\ pc = "loop" /\ idx <= Len(notebooks)
    /\ FilterMatches(filter, notebooks[idx][1])
    /\ LET run_id == notebooks[idx][1]
           about == notebooks[idx][2]
           p == Prepare(about, config, cwd, env, dirs)
       IN /\ cwd' = p.cwd /\ env' = p.env /\ to_unset' = p.to_unset
          /\ output_name' = p.output_name
          /\ IF p.ok
             THEN /\ pc' = "executing" /\ error' = NoError
                  /\ clock' = clock + 1
                  /\ start_time' = RecPut(start_time, "nb", clock)
                  /\ LET nb == [id |-> about["notebook_id"], dir |-> about["notebook_dir"],
                                src |-> about["notebook_src"], out |-> p.output_name]
                         u == update_ci_report(report_file.content, error_file, run_id,
                                               nb, TRUE, FALSE, TRUE, start_time', end_time)
                     IN /\ report_file' = File(u.report)
                        /\ error_file' = u.error_file
             ELSE /\ pc' = "aborted" /\ error' = p.error
                  /\ UNCHANGED << clock, start_time, report_file, error_file >>
    /\ UNCHANGED << profile, filter, reset, top_dir, content, idx, home, dirs, end_time,
                    report_json_path, report_error_path, saved,
                    config, notebooks, happy_end, kernel_runs >>
    /\ UNCHANGED indexVars /\ UNCHANGED ganVars /\ UNCHANGED saveVars /\ UNCHANGED imgVars

Outcomes == {"ok", "CellExecutionError", "Exception"}

\* lines 170-187: the notebook is executed and its end is reported; an exception
\* other than CellExecutionError leaves run_profile
ExecuteNotebook ==
    /\ pc = "executing"
    /\ \E outcome \in Outcomes :
         LET run_id == notebooks[idx][1]
             about == notebooks[idx][2]
             happy == (outcome = "ok")
             oname == IF happy THEN output_name
                      ELSE ErrorOutputName(splitext0(about["notebook_src"]))
         IN /\ kernel_runs' = Append(kernel_runs,
                                     [run_id |-> run_id, src |-> about["notebook_src"],
                                      cwd |-> cwd, env |-> env, outcome |-> outcome])
            /\ IF outcome = "Exception"
               THEN /\ pc' = "aborted" /\ error' = "Exception"
                    /\ UNCHANGED << clock, end_time, report_file, error_file,
                                    output_name, happy_end >>
               ELSE /\ pc' = "save" /\ error' = NoError
                    /\ clock' = clock + 1
                    /\ end_time' = RecPut(end_time, "nb", clock)
                    /\ happy_end' = happy
                    /\ output_name' = oname
                    /\ LET nb == [id |-> about["notebook_id"], dir |-> about["notebook_dir"],
                                  src |-> about["notebook_src"], out |-> oname]
                           u == update_ci_report(report_file.content, error_file, run_id,
                                                 nb, FALSE, TRUE, happy, start_time, end_time')
                       IN /\ report_file' = File(u.report)
                          /\ error_file' = u.error_file
    /\ UNCHANGED << profile, filter, reset, top_dir, content, idx, env, cwd, home, dirs,
                    start_time, report_json_path, report_error_path, saved,
                    config, notebooks, to_unset >>
    /\ UNCHANGED indexVars /\ UNCHANGED ganVars /\ UNCHANGED saveVars /\ UNCHANGED imgVars

\* lines 204-228: the files a run leaves behind
SavedFiles(cfg, notebook_dir, oname, d) ==
    LET ipynb_dir == abspath(d, top_dir \o << "/" >> \o cfg["output_ipynb"]
                                        \o << "/" >> \o notebook_dir)
        html_dir == abspath(d, top_dir \o << "/" >> \o cfg["output_html"]
                                       \o << "/" >> \o notebook_dir)
    IN (IF WritesOutput(cfg["output_ipynb"])
        THEN { Append(ipynb_dir, oname \o EXT_IPYNB) } ELSE {})
       \cup
       (IF WritesOutput(cfg["output_html"])
        THEN { Append(html_dir, oname \o EXT_HTML) } ELSE {})

\* get_base64_image(filename): the file is opened from the working directory
ImageReadable(src, d, images) == abspath(d, src) \in images

\* images_embedder over the markdown cells (lines 198-200): every src that is
\* not a 'data:' URI is read; srcs are the src attributes of the <img> tags
images_embedder(srcs, d, images) ==
    \A i \in 1..Len(srcs) :
        startswith(srcs[i], DATA_PREFIX) \/ ImageReadable(srcs[i], d, images)

\* the notebook read by nbformat.read for the run that has just ended
NotebookRead ==
    abspath(kernel_runs[Len(kernel_runs)].cwd, notebooks[idx][2]["notebook_src"])

\* lines 190-233: back to home, embed the images, save the results, clean the
\* environment; an image that cannot be read leaves run_profile
SaveNotebook ==
    /\ pc = "save"
    /\ cwd' = home
    /\ IF images_embedder(content.img_src[NotebookRead], home, content.images)
       THEN /\ LET about == notebooks[idx][2]
                   new == SavedFiles(config, about["notebook_dir"], output_name, home)
               IN /\ saved' = saved \cup new
                  /\ dirs' = dirs \cup UNION { Ancestors(SubSeq(f, 1, Len(f) - 1)) : f \in new }
            /\ env' = UnsetAll(env, to_unset)
            /\ idx' = idx + 1
            /\ pc' = "loop" /\ error' = error
       ELSE /\ pc' = "aborted" /\ error' = "FileNotFoundError"
            /\ UNCHANGED << saved, dirs, env, idx >>
    /\ UNCHANGED << profile, filter, reset, top_dir, content, home, clock,
                    start_time, end_time, report_json_path, report_error_path,
                    report_file, error_file, config, notebooks, to_unset,
                    output_name, happy_end, kernel_runs >>
    /\ UNCHANGED indexVars /\ UNCHANGED ganVars /\ UNCHANGED saveVars /\ UNCHANGED imgVars

\* reset_chrono(), lines 303-305: a call between two sessions empties the chronos
ResetChrono ==
    /\ pc \in {"done", "aborted"}
    /\ start_time' = << >> /\ end_time' = << >>
    /\ UNCHANGED << profile, filter, reset, top_dir, content, pc, error, idx, env, cwd,
                    home, dirs, clock, report_json_path, report_error_path,
                    report_file, error_file, saved, config, notebooks, to_unset,
                    output_name, happy_end, kernel_runs >>
    /\ UNCHANGED indexVars /\ UNCHANGED ganVars /\ UNCHANGED saveVars /\ UNCHANGED imgVars

\* lines 235-240: the end of the session
RunProfileEnd ==
    /\ pc = "loop" /\ idx > Len(notebooks)
    /\ clock' = clock + 1
    /\ end_time' = RecPut(end_time, "main", clock)
    /\ report_file' = File(CompleteReport(report_file.content, start_time, end_time'))
    /\ pc' = "done"
    /\ UNCHANGED << profile, filter, reset, top_dir, content, error, idx, env, cwd, home, dirs,
                    start_time, report_json_path, report_error_path, error_file,
                    saved, config, notebooks, to_unset, output_name, happy_end,
                    kernel_runs >>
    /\ UNCHANGED indexVars /\ UNCHANGED ganVars /\ UNCHANGED saveVars /\ UNCHANGED imgVars

Next ==
    \/ RunProfileBegin
    \/ SkipNotebook
    \/ StartNotebook
    \/ ExecuteNotebook
    \/ SaveNotebook
    \/ RunProfileEnd
    \/ ResetChrono

Spec == Init /\ [][Next]_vars

-----------------------------------------------------------------------------
(* Properties of run_profile.                                              *)

\* the run_ids of the profile, '_metadata_' left out, in profile order
ProfileRunIds == SelectSeq(KeyList(profile), LAMBDA k : k # META)
\* those of them that the filter matches
MatchingRunIds == SelectSeq(ProfileRunIds, LAMBDA k : re_match(filter, k))
NonMatchingRunIds == { k \in Keys(profile) \ {META} : ~re_match(filter, k) }
ExecutedRunIds == [i \in 1..Len(kernel_runs) |-> kernel_runs[i].run_id]
IsPrefix(a, b) == Len(a) <= Len(b) /\ SubSeq(b, 1, Len(a)) = a
AboutOf(run_id) == Get(profile, run_id)
Occurrences(d, k) == Cardinality({ i \in 1..Len(d) : d[i][1] = k })

\* init_ci_report has run in this session
ReportInitialised == pc # "start" /\ config # << >>

\* the report entries of the run_ids the filter rejects are inherited unchanged
\* by every step: none is created, none is modified
RejectedEntriesUntouched ==
    \A k \in NonMatchingRunIds :
        (report_file'.exists /\ Has(report_file'.content, k))
            => /\ report_file.exists
               /\ Has(report_file.content, k)
               /\ Get(report_file'.content, k) = Get(report_file.content, k)

\* C1: run_profile executes exactly the profile entries (other than '_metadata_')
\* whose run_id matches the filter, each once and in profile order: what has been
\* executed so far is always a prefix of the matching entries and is all of them
\* when run_profile returns; no step creates or modifies the report entry of an
\* entry that does not match.
C1_ExecutesMatchingInOrder ==
    /\ [](/\ IsPrefix(ExecutedRunIds, MatchingRunIds)
          /\ (pc = "done" => ExecutedRunIds = MatchingRunIds))
    /\ [][RejectedEntriesUntouched]_vars

C1_Witness ==
    /\ pc = "done"
    /\ Len(kernel_runs) >= 1
    /\ \E k \in NonMatchingRunIds :
          Has(report_file.content, k) /\ Get(report_file.content, k) = OldEntry(Unfinished)

\* C2: when run_profile returns, the report holds one entry for every notebook
\* executed in the session, with state 'ok' or 'ERROR', 'ok' exactly when the
\* execution raised no CellExecutionError, and '_metadata_' end and duration
\* are no longer 'Unfinished...'.
C2_ReportCompleteOnReturn ==
    pc = "done" =>
        /\ \A i \in 1..Len(kernel_runs) :
              LET r == kernel_runs[i] IN
              /\ Occurrences(report_file.content, r.run_id) = 1
              /\ Get(report_file.content, r.run_id).state \in {STATE_OK, STATE_ERROR}
              /\ Get(report_file.content, r.run_id).state # Unfinished
              /\ (Get(report_file.content, r.run_id).state = STATE_OK
                    <=> r.outcome # "CellExecutionError")
        /\ Get(report_file.content, META)["end"] # Unfinished
        /\ Get(report_file.content, META)["duration"] # Unfinished

C2_Witness ==
    /\ pc = "done"
    /\ \E i, j \in 1..Len(kernel_runs) :
          /\ kernel_runs[i].outcome = "ok"
          /\ kernel_runs[j].outcome = "CellExecutionError"

\* the error lines the failed notebooks of the session call for, in execution order
RECURSIVE ExpectedErrorLines(_)
ExpectedErrorLines(runs) ==
    IF runs = << >> THEN << >>
    ELSE LET r == Head(runs)
             a == AboutOf(r.run_id)
             line == SEE \o a["notebook_dir"] \o << "/" >>
                         \o Get(report_file.content, r.run_id).out \o << " " >>
         IN (IF r.outcome = "CellExecutionError" THEN << line >> ELSE << >>)
            \o ExpectedErrorLines(Tail(runs))

\* C3: init_ci_report removes the error file; from then on the file holds exactly
\* one 'See : <notebook_dir>/<notebook_out>' line per notebook of the session
\* that ended in state 'ERROR', in execution order (start updates and successful
\* end updates add nothing), and it does not exist while no notebook has failed;
\* in particular when run_profile returns.
C3_ErrorFileListsFailures ==
    ReportInitialised =>
        /\ error_file.content = ExpectedErrorLines(kernel_runs)
        /\ error_file.exists <=>
              \E i \in 1..Len(kernel_runs) : kernel_runs[i].outcome = "CellExecutionError"
        /\ \A i \in 1..Len(kernel_runs) :
              kernel_runs[i].outcome = "CellExecutionError" =>
                 Get(report_file.content, kernel_runs[i].run_id).state = STATE_ERROR

C3_Witness ==
    /\ pc = "done"
    /\ Len(kernel_runs) = 2
    /\ kernel_runs[1].outcome = "CellExecutionError"
    /\ kernel_runs[2].outcome = "ok"
    /\ Len(error_file.content) = 1

\* the FIDLE_OVERRIDE_ variables of an environment, with their values
OverrideVars(e) == { << e[i][1], e[i][2] >> : i \in { j \in 1..Len(e) :
                                                     startswith(e[j][1], OVERRIDE_PREFIX) } }

\* the variables the overrides of a profile entry call for
ExpectedOverrideVars(about) ==
    IF "overrides" \notin DOMAIN about \/ about["overrides"].t # "dict" THEN {}
    ELSE LET ov == about["overrides"].v
         IN { << OVERRIDE_PREFIX \o upper(about["notebook_id"]) \o << "_" >> \o ov[i][1],
                 str(ov[i][2]) >> :
                i \in { j \in 1..Len(ov) : ov[j][2] # StrVal(DEFAULT) } }

\* C4: while a notebook executes, the FIDLE_OVERRIDE_ variables of the environment
\* are exactly the non-'default' overrides of its profile entry, named
\* FIDLE_OVERRIDE_<NOTEBOOK_ID upper-cased>_<name>; between two notebooks and when
\* run_profile returns no FIDLE_OVERRIDE_ variable is set.
C4_OverridesScopedToNotebook ==
    /\ \A i \in 1..Len(kernel_runs) :
          OverrideVars(kernel_runs[i].env) = ExpectedOverrideVars(AboutOf(kernel_runs[i].run_id))
    /\ pc = "executing" => OverrideVars(env) = ExpectedOverrideVars(notebooks[idx][2])
    /\ pc \in {"loop", "done"} => OverrideVars(env) = {}

C4_Witness ==
    /\ pc = "done"
    /\ Len(kernel_runs) = 2
    /\ Cardinality(OverrideVars(kernel_runs[1].env)) = 2
    /\ OverrideVars(kernel_runs[2].env) = {}
    /\ \E i \in 1..Len(env) : ~startswith(env[i][1], OVERRIDE_PREFIX)

\* 'none' in any letter case
IsNoneAnyCase(x) ==
    /\ Len(x) = 4
    /\ x[1] \in {"n", "N"} /\ x[2] \in {"o", "O"} /\ x[3] \in {"n", "N"} /\ x[4] \in {"e", "E"}

\* the tagged name a run is saved under
TaggedName(r) ==
    LET a == AboutOf(r.run_id)
        base == splitext0(a["notebook_src"])
    IN IF r.outcome = "CellExecutionError" THEN base \o ERROR_TAG
       ELSE IF a["notebook_tag"] = DEFAULT THEN base \o config["output_tag"]
       ELSE base \o a["notebook_tag"]

\* the files a run must leave behind
TaggedFiles(r) ==
    LET a == AboutOf(r.run_id)
        place(out) == abspath(home, top_dir \o << "/" >> \o out \o << "/" >> \o a["notebook_dir"])
    IN (IF IsNoneAnyCase(config["output_ipynb"]) THEN {}
        ELSE { Append(place(config["output_ipynb"]), TaggedName(r) \o EXT_IPYNB) })
       \cup
       (IF IsNoneAnyCase(config["output_html"]) THEN {}
        ELSE { Append(place(config["output_html"]), TaggedName(r) \o EXT_HTML) })

\* C5: every run is saved under its tagged name: base name + output_tag (tag
\* 'default') or + notebook_tag for a successful run, base name + '==ERROR==' for
\* a failed one; the saved .ipynb and .html files and the 'out' field of the
\* final report entry use that name, and nothing is written for an output
\* directory that is 'none' in any letter case.
C5_SavedUnderTaggedName ==
    pc \in {"loop", "done"} =>
        /\ saved = UNION { TaggedFiles(kernel_runs[i]) : i \in 1..Len(kernel_runs) }
        /\ \A i \in 1..Len(kernel_runs) :
              Get(report_file.content, kernel_runs[i].run_id).out = TaggedName(kernel_runs[i])

C5_Witness ==
    /\ pc = "done"
    /\ \E i, j \in 1..Len(kernel_runs) :
          /\ kernel_runs[i].outcome = "ok"
          /\ AboutOf(kernel_runs[i].run_id)["notebook_tag"] # DEFAULT
          /\ kernel_runs[j].outcome = "CellExecutionError"
    /\ IsNoneAnyCase(config["output_ipynb"])
    /\ Cardinality(saved) = 2

-----------------------------------------------------------------------------
(* cookindex.py: the files below top_dir and what they contain.            *)

D_DV == << "d","=","=","v","=","=" >>
F_A == << "a",".","i","p","y","n","b" >>
F_B == << "B",".","i","p","y","n","b" >>
F_A_CI == << "a","=","=","c","i","=","=",".","i","p","y","n","b" >>
F_C == << "c",".","i","p","y","n","b" >>
F_C_ERR == << "c","=","=","E","R","R","O","R","=","=",".","i","p","y","n","b" >>
F_R == << "r",".","s","h" >>
F_MD == << "n",".","m","d" >>
F_HID == << ".","h",".","i","p","y","n","b" >>

DirPool == { D_LR, D_G, D_DV }

FilePool == { << D_LR, F_A >>, << D_LR, F_B >>, << D_LR, F_A_CI >>, << D_LR, F_R >>,
              << D_LR, F_MD >>, << D_G, F_C >>, << D_G, F_C_ERR >>, << D_G, F_HID >>,
              << D_DV, F_A >> }

PathOf(f) == f[1] \o << "/" >> \o f[2]

ID_LR1 == << "L","R","1" >>
ID_LRS == << "L","R","S" >>
ID_DV1 == << "D","V","1" >>
QQ == << "?","?" >>
RUN_DIR == << "r","u","n","_","d","i","r" >>

\* a cell, by what the regular expressions of get_notebook_infos find in it
Markdown(titles, descs) ==
    [cell_type |-> "markdown", title |-> titles, desc |-> descs,
     override_calls |-> << >>, run_dir |-> FALSE]
Code(calls, has_run_dir) ==
    [cell_type |-> "code", title |-> << >>, desc |-> << >>,
     override_calls |-> calls, run_dir |-> has_run_dir]

NotebookLR1 ==
    << Markdown(<< << ID_LR1, << "t","1" >> >>, << << "Z" >>, << "t","2" >> >> >>,
                << << "d","1" >> >>),
       Code(<< << OV_X, OV_Y >> >>, FALSE),
       Markdown(<< >>, << >>),
       Code(<< << OV_X >> >>, TRUE) >>
NotebookNoTags == << Markdown(<< >>, << >>), Code(<< >>, FALSE) >>
NotebookRunDir == << Code(<< >>, TRUE), Markdown(<< >>, << << "d","2" >> >>) >>
NotebookDV1 == << Markdown(<< << ID_DV1, << "t","3" >> >> >>, << >>) >>
ScriptLRS == [title |-> << << ID_LRS, << "t","4" >> >> >>, desc |-> << >>]

\* nbformat.read / fp.read of an existing file
ContentOf(path) ==
    IF path \in { PathOf(<< D_LR, F_A >>), PathOf(<< D_LR, F_A_CI >>) } THEN NotebookLR1
    ELSE IF path = PathOf(<< D_LR, F_B >>) THEN NotebookNoTags
    ELSE IF path \in { PathOf(<< D_G, F_C >>), PathOf(<< D_G, F_C_ERR >>) } THEN NotebookRunDir
    ELSE IF path = PathOf(<< D_DV, F_A >>) THEN NotebookDV1
    ELSE IF path = PathOf(<< D_LR, F_R >>) THEN ScriptLRS
    ELSE NotebookNoTags

Exists(t, path) == \E f \in t : PathOf(f) = path

-----------------------------------------------------------------------------
(* get_files (cookindex.py).                                               *)

TAG_REGEX == << ".","*","=","=",".","+","?","=","=",".","*" >>

\* glob.glob(f'{top_dir}/{d}/*<ext>'): the matching files of the directory;
\* '*' does not match a leading dot
glob(t, td, d, ext) ==
    { td \o << "/" >> \o d \o << "/" >> \o f[2] :
        f \in { g \in t : g[1] = d /\ endswith(g[2], ext) /\ g[2][1] # "." } }

\* list.sort() of strings
RECURSIVE sorted(_)
sorted(S) ==
    IF S = {} THEN << >>
    ELSE LET m == CHOOSE x \in S : \A y \in S \ {x} : StrLess(x, y)
         IN << m >> \o sorted(S \ {m})

\* the loop over the directories
RECURSIVE CollectFiles(_, _, _)
CollectFiles(t, ds, td) ==
    IF ds = << >> THEN << >>
    ELSE sorted(glob(t, td, Head(ds), EXT_IPYNB)) \o sorted(glob(t, td, Head(ds), EXT_SH))
         \o CollectFiles(t, Tail(ds), td)

get_files(t, ds, td) ==
    LET all == CollectFiles(t, ds, td)
        kept == SelectSeq(all, LAMBDA x : ~re_match(TAG_REGEX, x))
    IN [i \in 1..Len(kept) |-> replace(kept[i], td \o << "/" >>, << >>)]

-----------------------------------------------------------------------------
(* get_notebook_infos, get_txtfile_infos, get_catalog (cookindex.py).      *)

RECURSIVE Flatten(_)
Flatten(ll) == IF ll = << >> THEN << >> ELSE Head(ll) \o Flatten(Tail(ll))

\* the loop over the cells: st is [about, overrides]
RECURSIVE ScanCells(_, _)
ScanCells(st, cells) ==
    IF cells = << >> THEN st
    ELSE LET c == Head(cells)
             md == c.cell_type = "markdown"
             a1 == IF md /\ c.title # << >>
                   THEN [st.about EXCEPT !.id = c.title[1][1], !.title = c.title[1][2]]
                   ELSE st.about
             a2 == IF md /\ c.desc # << >> THEN [a1 EXCEPT !.description = c.desc[1]] ELSE a1
             o1 == IF c.cell_type = "code"
                   THEN st.overrides \o Flatten(c.override_calls)
                        \o (IF c.run_dir THEN << RUN_DIR >> ELSE << >>)
                   ELSE st.overrides
         IN ScanCells([about |-> a2, overrides |-> o1], Tail(cells))

BlankAbout(filename) ==
    [id |-> QQ, dirname |-> dirname(filename), basename |-> basename(filename),
     title |-> QQ, description |-> QQ, overrides |-> << >>]

get_notebook_infos(filename) ==
    LET st == ScanCells([about |-> BlankAbout(filename), overrides |-> << >>],
                        ContentOf(filename))
    IN [st.about EXCEPT !.overrides = st.overrides]

get_txtfile_infos(filename) ==
    LET text == ContentOf(filename)
        a0 == BlankAbout(filename)
        a1 == IF text.title # << >>
              THEN [a0 EXCEPT !.id = text.title[1][1], !.title = text.title[1][2]]
              ELSE a0
    IN IF text.desc # << >> THEN [a1 EXCEPT !.description = text.desc[1]] ELSE a1

\* the files get_catalog reads
MutIndexed(file) == endswith(file, EXT_IPYNB)
Indexed(file) == endswith(file, EXT_IPYNB) \/ endswith(file, EXT_SH)

AboutFile(file) ==
    IF endswith(file, EXT_SH) THEN get_txtfile_infos(file) ELSE get_notebook_infos(file)

\* the loop of get_catalog
RECURSIVE get_catalog(_, _)
get_catalog(cat, fl) ==
    IF fl = << >> THEN cat
    ELSE IF Indexed(Head(fl))
         THEN get_catalog(Put(cat, AboutFile(Head(fl)).id, AboutFile(Head(fl))), Tail(fl))
         ELSE get_catalog(cat, Tail(fl))

-----------------------------------------------------------------------------
(* build_default_profile (cookindex.py).                                   *)

CI_TAG == << "=","=","c","i","=","=" >>
NB_PREFIX == << "N","b","_" >>

DefaultMetadata(output_tag) ==
    [ version |-> << "1",".","0" >>,
      output_tag |-> output_tag,
      save_figs |-> TRUE,
      description |-> << "D","e","f","a","u","l","t"," ","g","e","n","e","r","a","t","e","d",
                         " ","p","r","o","f","i","l","e" >>,
      output_ipynb |-> << "<","d","i","r","e","c","t","o","r","y"," ","f","o","r"," ",
                          "i","p","y","n","b",">" >>,
      output_html |-> << "<","d","i","r","e","c","t","o","r","y"," ","f","o","r"," ",
                         "h","t","m","l",">" >>,
      report_json |-> << "<","r","e","p","o","r","t"," ","j","s","o","n"," ","f","i","l","e",">" >>,
      report_error |-> << "<","e","r","r","o","r"," ","f","i","l","e",">" >> ]

\* { name:'default' for name in overrides }
RECURSIVE DefaultOverrides(_, _)
DefaultOverrides(d, names) ==
    IF names = << >> THEN d
    ELSE DefaultOverrides(Put(d, Head(names), StrVal(DEFAULT)), Tail(names))

MutHasOverrides(names) == TRUE
HasOverrides(names) == Len(names) > 0

NotebookEntry(about) ==
    LET nb == [ notebook_id |-> about.id, notebook_dir |-> about.dirname,
                notebook_src |-> about.basename, notebook_tag |-> DEFAULT ]
    IN IF HasOverrides(about.overrides)
       THEN RecPut(nb, "overrides", DictVal(DefaultOverrides(<< >>, about.overrides)))
       ELSE nb

RECURSIVE AddEntries(_, _)
AddEntries(prof, cat) ==
    IF cat = << >> THEN prof
    ELSE LET about == Head(cat)[2]
         IN AddEntries(Put(prof, NB_PREFIX \o about.id, NotebookEntry(about)), Tail(cat))

build_default_profile(cat, output_tag) ==
    AddEntries(<< << META, DefaultMetadata(output_tag) >> >>, cat)

-----------------------------------------------------------------------------
(* The cookindex pipeline: build_catalog, build_default_profile, and       *)
(* run_profile started on the generated profile.                           *)

\* the catalog file an earlier build_catalog left behind
ID_OLD == << "O","L","D" >>
OldCatalog ==
    << << ID_OLD, [id |-> ID_OLD, dirname |-> D_LR,
                   basename |-> << "o","l","d",".","i","p","y","n","b" >>,
                   title |-> << "t","0" >>, description |-> << "d","0" >>,
                   overrides |-> << >>] >> >>

Trees == { t \in SUBSET FilePool : Cardinality(t) <= MaxTreeFiles }

RECURSIVE DistinctLists(_, _)
DistinctLists(S, n) ==
    IF n = 0 THEN { << >> }
    ELSE LET shorter == DistinctLists(S, n - 1)
         IN shorter \cup { Append(l, x) : l \in { k \in shorter : Len(k) = n - 1 },
                                          x \in S }

ListsOf(S, n) == { l \in DistinctLists(S, n) : Distinct(l) }

InitIndex ==
    /\ tree \in Trees
    /\ \/ /\ directories \in ListsOf(DirPool, MaxDirs)
          /\ files_list = << >>
          /\ ipc = "start"
       \/ /\ directories = << >>
          /\ files_list \in ListsOf({ PathOf(f) : f \in tree }, MaxFiles)
          /\ ipc = "given"
    /\ catalog = << >>
    /\ catalog_file \in { NoFile, File(OldCatalog) }
    /\ profile = << >> /\ filter = << ".", "*" >> /\ reset = FALSE
    /\ top_dir = << ".", "." >>
    /\ content = NoContent
    /\ pc = "idle" /\ error = NoError /\ idx = 1 /\ env = << >>
    /\ cwd = StartDir /\ home = StartDir /\ dirs = InitialDirs /\ clock = 0
    /\ start_time = << >> /\ end_time = << >>
    /\ report_json_path = << >> /\ report_error_path = << >>
    /\ report_file = NoFile /\ error_file = NoFile /\ saved = {}
    /\ config = << >> /\ notebooks = << >> /\ to_unset = << >>
    /\ output_name = << >> /\ happy_end = TRUE /\ kernel_runs = << >>
    /\ GanIdle /\ SaveIdle /\ ImgIdle

\* build_catalog, line 43: files_list = get_files(directories.keys())
GetFiles ==
    /\ ipc = "start"
    /\ files_list' = get_files(tree, directories, top_dir)
    /\ ipc' = "files"
    /\ UNCHANGED << tree, directories, catalog, catalog_file >>
    /\ UNCHANGED ciVars /\ UNCHANGED ganVars /\ UNCHANGED saveVars /\ UNCHANGED imgVars

\* build_catalog, lines 47-52: the catalog of the files found is saved as
\* CATALOG_FILE
BuildCatalog ==
    /\ ipc = "files"
    /\ catalog' = get_catalog(<< >>, files_list)
    /\ catalog_file' = File(catalog')
    /\ ipc' = "catalog"
    /\ UNCHANGED << tree, directories, files_list >>
    /\ UNCHANGED ciVars /\ UNCHANGED ganVars /\ UNCHANGED saveVars /\ UNCHANGED imgVars

\* get_catalog(files_list) called on its own: nothing is saved; reading a file
\* that does not exist raises
GetCatalog ==
    /\ ipc = "given"
    /\ IF \A i \in 1..Len(files_list) : Indexed(files_list[i]) => Exists(tree, files_list[i])
       THEN /\ catalog' = get_catalog(<< >>, files_list)
            /\ ipc' = "catalog"
       ELSE /\ catalog' = catalog
            /\ ipc' = "failed"
    /\ UNCHANGED << tree, directories, files_list, catalog_file >>
    /\ UNCHANGED ciVars /\ UNCHANGED ganVars /\ UNCHANGED saveVars /\ UNCHANGED imgVars

\* read_catalog(), lines 216-226: the catalog is read from CATALOG_FILE
read_catalog(file) == file.content

\* build_default_profile(): the catalog file is read, the profile file is
\* written, and is then given to run_profile; without a catalog file
\* read_catalog raises
BuildDefaultProfile ==
    /\ ipc = "catalog"
    /\ IF catalog_file.exists
       THEN /\ profile' = build_default_profile(read_catalog(catalog_file), CI_TAG)
            /\ ipc' = "profile"
            /\ pc' = "start"
       ELSE /\ ipc' = "failed"
            /\ UNCHANGED << profile, pc >>
    /\ UNCHANGED << tree, directories, files_list, catalog, catalog_file >>
    /\ UNCHANGED << filter, reset, top_dir, content, error, idx, env, cwd, home, dirs,
                    clock, start_time, end_time, report_json_path, report_error_path,
                    report_file, error_file, saved, config, notebooks, to_unset,
                    output_name, happy_end, kernel_runs >>
    /\ UNCHANGED ganVars /\ UNCHANGED saveVars /\ UNCHANGED imgVars

NextIndex ==
    \/ GetFiles
    \/ BuildCatalog
    \/ GetCatalog
    \/ BuildDefaultProfile
    \/ RunProfileBegin
    \/ ResetChrono

SpecIndex == InitIndex /\ [][NextIndex]_vars

-----------------------------------------------------------------------------
(* Properties of cookindex.                                                *)

\* the name carries a '==<tag>==' marker
HasMarker(name) ==
    \E i, j \in 1..Len(name) :
        /\ i + 3 <= j /\ j + 1 <= Len(name)
        /\ name[i] = "=" /\ name[i + 1] = "="
        /\ name[j] = "=" /\ name[j + 1] = "="

\* the untagged files of a directory that glob's '*<ext>' matches, prefix removed
UntaggedOf(d, ext) ==
    { PathOf(f) : f \in { g \in tree : /\ g[1] = d
                                       /\ endswith(g[2], ext)
                                       /\ g[2][1] # "."
                                       /\ ~HasMarker(g[2]) } }

RECURSIVE ExpectedFiles(_)
ExpectedFiles(ds) ==
    IF ds = << >> THEN << >>
    ELSE sorted(UntaggedOf(Head(ds), EXT_IPYNB)) \o sorted(UntaggedOf(Head(ds), EXT_SH))
         \o ExpectedFiles(Tail(ds))

\* C6: get_files returns, for the given directories in the given order, each
\* directory's *.ipynb files in sorted order followed by its *.sh files in sorted
\* order, with the top_dir prefix removed: every file whose name carries no
\* '==<tag>==' marker is returned, and no file whose name carries one.
C6_UntaggedFilesListed ==
    ipc = "files" => files_list = ExpectedFiles(directories)

\* the .ipynb/.sh files of files_list, their ids and their attributes
IndexedFiles == SelectSeq(files_list, LAMBDA f : endswith(f, EXT_IPYNB) \/ endswith(f, EXT_SH))
IdOf(f) == AboutFile(f).id
FirstOccurrences ==
    { i \in 1..Len(IndexedFiles) : \A j \in 1..(i - 1) : IdOf(IndexedFiles[j]) # IdOf(IndexedFiles[i]) }
LastWithId(id) ==
    CHOOSE i \in 1..Len(IndexedFiles) :
        /\ IdOf(IndexedFiles[i]) = id
        /\ \A j \in (i + 1)..Len(IndexedFiles) : IdOf(IndexedFiles[j]) # id
\* the k-th smallest element of a set of numbers
Nth(S, k) == CHOOSE x \in S : Cardinality({ y \in S : y < x }) = k - 1

\* C7 as stated: the catalog holds the attributes of every .ipynb/.sh file of
\* files_list, in list order, so it has as many entries as there are such files.
C7_OneEntryPerFile ==
    ipc = "catalog" =>
        /\ Len(catalog) = Len(IndexedFiles)
        /\ \A i \in 1..Len(IndexedFiles) :
              i <= Len(catalog) /\ catalog[i][2] = AboutFile(IndexedFiles[i])

\* C7 amended: the catalog is keyed by file id; files with another extension are
\* skipped; it holds one entry per distinct id of the .ipynb/.sh files, at the
\* place of the id's first occurrence, with the attributes of the last file
\* carrying that id; the number of entries is the number of distinct ids.
C7_OneEntryPerId ==
    ipc = "catalog" =>
        /\ Len(catalog) = Cardinality(FirstOccurrences)
        /\ Len(catalog) = Cardinality({ IdOf(IndexedFiles[i]) : i \in 1..Len(IndexedFiles) })
        /\ \A k \in 1..Len(catalog) :
              LET id == IdOf(IndexedFiles[Nth(FirstOccurrences, k)])
              IN /\ catalog[k][1] = id
                 /\ catalog[k][2] = AboutFile(IndexedFiles[LastWithId(id)])
                 /\ catalog[k][2].id = id

C7_Witness ==
    /\ ipc = "catalog"
    /\ Len(files_list) = 3
    /\ Len(IndexedFiles) = 2
    /\ \E i \in 1..Len(files_list) : endswith(files_list[i], EXT_SH)
    /\ \E i \in 1..Len(files_list) : files_list[i] = PathOf(<< D_LR, F_MD >>)
    /\ Len(catalog) = 2

\* two files without a TITLE tag share the id '??': one catalog entry for both
C7_CollisionReached ==
    /\ ipc = "catalog"
    /\ Len(IndexedFiles) = 2
    /\ Len(catalog) = 1

\* C8: the default profile holds '_metadata_' plus exactly one entry 'Nb_<id>'
\* per catalog entry, with that entry's notebook_id, notebook_dir, notebook_src
\* and notebook_tag 'default'; 'overrides' is present exactly when the catalog
\* entry lists at least one override name, and maps every listed name (and
\* nothing else) to 'default'.
C8_DefaultProfileMirrorsCatalog ==
    ipc = "profile" =>
        /\ Occurrences(profile, META) = 1
        /\ Len(profile) = 1 + Len(catalog_file.content)
        /\ \A i \in 1..Len(catalog_file.content) :
              LET about == catalog_file.content[i][2]
                  key == << "N","b","_" >> \o about.id
              IN /\ Occurrences(profile, key) = 1
                 /\ LET nb == Get(profile, key)
                    IN /\ nb["notebook_id"] = about.id
                       /\ nb["notebook_dir"] = about.dirname
                       /\ nb["notebook_src"] = about.basename
                       /\ nb["notebook_tag"] = DEFAULT
                       /\ ("overrides" \in DOMAIN nb) <=> (about.overrides # << >>)
                       /\ ("overrides" \in DOMAIN nb) =>
                             /\ nb["overrides"].t = "dict"
                             /\ Keys(nb["overrides"].v)
                                   = { about.overrides[j] : j \in 1..Len(about.overrides) }
                             /\ \A j \in 1..Len(nb["overrides"].v) :
                                   nb["overrides"].v[j][2] = StrVal(DEFAULT)

C8_Witness ==
    /\ ipc = "profile"
    /\ \E i, j \in 1..Len(catalog_file.content) :
          /\ Len(catalog_file.content[i][2].overrides) = 4
          /\ Len(Get(profile, NB_PREFIX \o catalog_file.content[i][1])["overrides"].v) = 3
          /\ catalog_file.content[j][2].overrides = << >>
          /\ "overrides" \notin DOMAIN Get(profile, NB_PREFIX \o catalog_file.content[j][1])

\* the keys run_profile reads from the profile
MetadataKeysRead == {"report_json", "report_error", "output_ipynb", "output_html",
                     "output_tag", "environment_vars"}

\* C9: the generated profile holds, in '_metadata_', every key run_profile reads
\* from the metadata and, in every notebook entry, every key run_profile reads
\* from an entry, so run_profile started on it meets no missing-key error before
\* the execution of the first notebook.
C9_GeneratedProfileRuns ==
    ipc = "profile" =>
        /\ ConfigHas(Get(profile, META), MetadataKeysRead)
        /\ \A i \in 1..Len(profile) :
              profile[i][1] # META => ConfigHas(profile[i][2], AboutKeys)
        /\ error # "KeyError"

-----------------------------------------------------------------------------
(* DCGAN.train_step (DCGAN.py).  The networks, the loss and the gradients  *)
(* belong to the framework: a weight is a number, a gradient any of        *)
(* Gradients.  The values of tf.random.uniform and the labels are floats:   *)
(* a value u of [0, 1) and a label are held in hundredths, rounded down,   *)
(* so that u is any number of 0..99 and a label l stands for the floats of *)
(* [l / 100, (l + 1) / 100).  The noise 0.05 * u of u = 0.4 is 2 (0.02),   *)
(* that of u = 0.5 is 2 (0.025), that of u = 0.99 is 4 (0.0495), and the   *)
(* label 1.0165 is 101.                                                    *)

Gradients == {-1, 0, 1}

\* line 105: the number of real images a call is given
BatchSizes == 1..MaxBatch

\* the label 1.0, in hundredths
ONE == 100

\* line 121: the values tf.random.uniform gives to a row: any float of [0, 1)
Uniforms == 0..99

\* line 121: 0.05 * u, in hundredths, rounded down
Noise(u) == (5 * u) \div 100

\* line 121: the noises a row can get, one for each value of tf.random.uniform
Noises == { Noise(u) : u \in Uniforms }

\* tf.ones((n, 1)), tf.zeros((n, 1)), tf.concat(axis=0)
ones(n) == [i \in 1..n |-> ONE]
zeros(n) == [i \in 1..n |-> 0]
concat(a, b) == a \o b

\* lines 117-119: the labels of the combined images, before the noise
MutBaseLabels(n) == concat(zeros(n), ones(n))
BaseLabels(n) == concat(ones(n), zeros(n))

\* line 151
MisleadingLabels(n) == zeros(n)

\* lines 108-114: generated_images = generator(...) has batch_size rows, and
\* combined_images = tf.concat([generated_images, real_images], axis=0)
GeneratedImages(n) == [i \in 1..n |-> "generated"]
RealImages(n) == [i \in 1..n |-> "real"]
CombinedImages(n) == concat(GeneratedImages(n), RealImages(n))

\* the weights an optimizer step is given: zip(grads, <model>.trainable_weights)
DiscriminatorStepWeights == {"discriminator"}
MutGeneratorStepWeights == {"generator", "discriminator"}
GeneratorStepWeights == {"generator"}

\* optimizer.apply_gradients: only the weights given are changed
apply_gradients(w, given, grads) ==
    [m \in DOMAIN w |-> IF m \in given THEN w[m] - grads[m] ELSE w[m]]

InRange(w) == \A m \in DOMAIN w : w[m] \in (-MaxWeight)..MaxWeight

Weights == [discriminator |-> d_weights, generator |-> g_weights]

InitGAN ==
    /\ d_weights \in {-1, 0, 1} /\ g_weights \in {-1, 0, 1}
    /\ gan_pc = "ready" /\ gan_calls = 0 /\ update_log = << >>
    /\ batch_size = 0 /\ labels = << >> /\ misleading_labels = << >>
    /\ combined_images = << >>
    /\ CiIdle /\ IndexIdle /\ SaveIdle /\ ImgIdle

\* lines 100-121: the batch, the generated images, the noisy labels; each row
\* gets the noise of its own value of tf.random.uniform
PrepareDiscriminatorData ==
    /\ gan_pc = "ready" /\ gan_calls < MaxCalls
    /\ \E n \in BatchSizes :
         /\ batch_size' = n
         /\ combined_images' = CombinedImages(n)
         /\ \E noise \in [1..(2 * n) -> Noises] :
               labels' = [i \in 1..(2 * n) |-> BaseLabels(n)[i] + noise[i]]
    /\ misleading_labels' = << >>
    /\ gan_pc' = "discriminator"
    /\ UNCHANGED << d_weights, g_weights, gan_calls, update_log >>
    /\ UNCHANGED ciVars /\ UNCHANGED indexVars /\ UNCHANGED saveVars /\ UNCHANGED imgVars

\* lines 129-142: one step of the discriminator's optimizer
TrainDiscriminator ==
    /\ gan_pc = "discriminator"
    /\ \E gd \in Gradients :
         LET w == apply_gradients(Weights, DiscriminatorStepWeights,
                                  [discriminator |-> gd, generator |-> 0])
         IN /\ InRange(w)
            /\ d_weights' = w["discriminator"]
            /\ g_weights' = w["generator"]
    /\ update_log' = Append(update_log, "d_optimizer")
    /\ gan_pc' = "generator"
    /\ UNCHANGED << gan_calls, batch_size, labels, misleading_labels, combined_images >>
    /\ UNCHANGED ciVars /\ UNCHANGED indexVars /\ UNCHANGED saveVars /\ UNCHANGED imgVars

\* lines 148-176: the misleading labels, one step of the generator's optimizer.
\* The gradients are those of g_loss with respect to the weights given.
TrainGenerator ==
    /\ gan_pc = "generator"
    /\ misleading_labels' = MisleadingLabels(batch_size)
    /\ \E gg \in Gradients :
         LET w == apply_gradients(Weights, GeneratorStepWeights,
                                  [discriminator |-> gg, generator |-> gg])
         IN /\ InRange(w)
            /\ d_weights' = w["discriminator"]
            /\ g_weights' = w["generator"]
    /\ update_log' = Append(update_log, "g_optimizer")
    /\ gan_pc' = "metrics"
    /\ UNCHANGED << gan_calls, batch_size, labels, combined_images >>
    /\ UNCHANGED ciVars /\ UNCHANGED indexVars /\ UNCHANGED saveVars /\ UNCHANGED imgVars

\* lines 181-187: the metrics are updated and returned; the call is over and
\* its local variables with it
ReturnMetrics ==
    /\ gan_pc = "metrics"
    /\ gan_calls' = gan_calls + 1
    /\ gan_pc' = "ready"
    /\ batch_size' = 0 /\ labels' = << >> /\ misleading_labels' = << >>
    /\ combined_images' = << >>
    /\ UNCHANGED << d_weights, g_weights, update_log >>
    /\ UNCHANGED ciVars /\ UNCHANGED indexVars /\ UNCHANGED saveVars /\ UNCHANGED imgVars

NextGAN ==
    \/ PrepareDiscriminatorData
    \/ TrainDiscriminator
    \/ TrainGenerator
    \/ ReturnMetrics

SpecGAN == InitGAN /\ [][NextGAN]_vars

-----------------------------------------------------------------------------
(* Properties of DCGAN.train_step.                                         *)

\* the optimizer steps of n complete calls
RECURSIVE StepsOfCalls(_)
StepsOfCalls(n) ==
    IF n = 0 THEN << >> ELSE StepsOfCalls(n - 1) \o << "d_optimizer", "g_optimizer" >>

\* C10: each call of train_step performs exactly one discriminator optimizer
\* update followed by exactly one generator optimizer update; the discriminator's
\* weights change only in the discriminator update and the generator's weights
\* only in the generator update.
C10_OneUpdateEachInOrder ==
    /\ [](/\ gan_pc = "ready" => update_log = StepsOfCalls(gan_calls)
          /\ gan_pc = "generator" =>
                update_log = StepsOfCalls(gan_calls) \o << "d_optimizer" >>
          /\ gan_pc = "metrics" => update_log = StepsOfCalls(gan_calls + 1))
    /\ [][/\ d_weights' # d_weights => gan_pc = "discriminator" /\ g_weights' = g_weights
          /\ g_weights' # g_weights => gan_pc = "generator" /\ d_weights' = d_weights]_vars

C10_Witness ==
    /\ gan_pc = "ready"
    /\ gan_calls = 2
    /\ d_weights = 2
    /\ g_weights = -2

-----------------------------------------------------------------------------
(* DCGAN.save and DCGAN.reload (DCGAN.py, lines 197-214).  A saved network *)
(* is a file holding the network's weights; a path is resolved from the    *)
(* working directory of the training host, and a file can be created only  *)
(* in a directory that exists.                                             *)

DISC_SUFFIX == << "-","d","i","s","c","r","i","m","i","n","a","t","o","r",".","h","5" >>
GEN_SUFFIX == << "-","g","e","n","e","r","a","t","o","r",".","h","5" >>

FN_BARE == << "m",".","h","5" >>
FN_DOT == << ".","/","m",".","h","5" >>
FN_RUN == << "r","/","m",".","h","5" >>
FN_DEEP == << "r","/","s","/","m" >>
Filenames == { FN_BARE, FN_DOT, FN_RUN, FN_DEEP }

\* the networks a DCGAN is built from
HostWeights == { 0, 1 }

Unsaved == << >>
SavedModel(network, w) == [network |-> network, weights |-> w]

\* os.makedirs(path, mode=0o750, exist_ok=True): mkdir('') fails
makedirs(D, path) ==
    IF path = << >> THEN [ok |-> FALSE, dirs |-> D]
    ELSE [ok |-> TRUE, dirs |-> D \cup Ancestors(abspath(GAN_CWD, path))]

ParentOf(path) == SubSeq(path, 1, Len(path) - 1)

\* <network>.save(path): the file is created or replaced
SaveNetwork(st, path, network, w) ==
    IF st.error # NoError THEN st
    ELSE LET a == abspath(GAN_CWD, path)
         IN IF a = << >> \/ ParentOf(a) \notin st.dirs
            THEN [st EXCEPT !.error = "OSError"]
            ELSE [st EXCEPT !.files = { f \in st.files : f[1] # a }
                                      \cup { << a, SavedModel(network, w) >> }]

\* DCGAN.save(filename)
save(filename, D, F, d, g) ==
    LET save_dir == dirname(filename)
        base == splitext0(filename)
        made == makedirs(D, save_dir)
    IN IF ~made.ok
       THEN [error |-> "FileNotFoundError", dirs |-> D, files |-> F]
       ELSE SaveNetwork(
              SaveNetwork([error |-> NoError, dirs |-> made.dirs, files |-> F],
                          base \o DISC_SUFFIX, "discriminator", d),
              base \o GEN_SUFFIX, "generator", g)

\* keras.models.load_model(path, compile=False)
IsFile(F, path) == \E f \in F : f[1] = abspath(GAN_CWD, path)
load_model(F, path) == (CHOOSE f \in F : f[1] = abspath(GAN_CWD, path))[2].weights

\* DCGAN.reload(filename): the discriminator is assigned before the generator
\* is loaded
reload(filename, F, d, g) ==
    LET base == splitext0(filename)
        dfile == base \o DISC_SUFFIX
        gfile == base \o GEN_SUFFIX
    IN IF ~IsFile(F, dfile) THEN [error |-> "OSError", d |-> d, g |-> g]
       ELSE IF ~IsFile(F, gfile)
            THEN [error |-> "OSError", d |-> load_model(F, dfile), g |-> g]
            ELSE [error |-> NoError, d |-> load_model(F, dfile), g |-> load_model(F, gfile)]

TrainIdle ==
    /\ gan_pc = "idle" /\ gan_calls = 0 /\ update_log = << >>
    /\ batch_size = 0 /\ labels = << >> /\ misleading_labels = << >>
    /\ combined_images = << >>

InitSave ==
    /\ d_weights \in HostWeights /\ g_weights \in HostWeights
    /\ gan_dirs = Ancestors(GAN_CWD) /\ gan_files = {}
    /\ io_call = NoCall
    /\ save_log = [fn \in Filenames |-> Unsaved]
    /\ TrainIdle /\ CiIdle /\ IndexIdle /\ ImgIdle

\* DCGAN(discriminator, generator): another instance, built from other networks
Construct ==
    /\ d_weights' \in HostWeights /\ g_weights' \in HostWeights
    /\ io_call' = [op |-> "init"]
    /\ UNCHANGED << gan_dirs, gan_files, save_log >>
    /\ UNCHANGED << gan_pc, gan_calls, update_log, batch_size, labels,
                    misleading_labels, combined_images >>
    /\ UNCHANGED ciVars /\ UNCHANGED indexVars /\ UNCHANGED imgVars

Save ==
    /\ \E fn \in Filenames :
         LET r == save(fn, gan_dirs, gan_files, d_weights, g_weights)
         IN /\ gan_dirs' = r.dirs
            /\ gan_files' = r.files
            /\ io_call' = [op |-> "save", filename |-> fn, error |-> r.error]
            /\ save_log' = [save_log EXCEPT ![fn] = << d_weights, g_weights >>]
    /\ UNCHANGED ganVars
    /\ UNCHANGED ciVars /\ UNCHANGED indexVars /\ UNCHANGED imgVars

Reload ==
    /\ \E fn \in Filenames :
         LET r == reload(fn, gan_files, d_weights, g_weights)
         IN /\ d_weights' = r.d
            /\ g_weights' = r.g
            /\ io_call' = [op |-> "reload", filename |-> fn, error |-> r.error]
    /\ UNCHANGED << gan_dirs, gan_files, save_log >>
    /\ UNCHANGED << gan_pc, gan_calls, update_log, batch_size, labels,
                    misleading_labels, combined_images >>
    /\ UNCHANGED ciVars /\ UNCHANGED indexVars /\ UNCHANGED imgVars

NextSave ==
    \/ Construct
    \/ Save
    \/ Reload

SpecSave == InitSave /\ [][NextSave]_vars

-----------------------------------------------------------------------------
(* Properties of DCGAN.save and DCGAN.reload.                              *)

\* the two parts of a model saved as filename
DiscriminatorFile(fn) == abspath(GAN_CWD, splitext0(fn) \o DISC_SUFFIX)
GeneratorFile(fn) == abspath(GAN_CWD, splitext0(fn) \o GEN_SUFFIX)

SaveDone(fn) ==
    /\ io_call.error = NoError
    /\ abspath(GAN_CWD, dirname(fn)) \in gan_dirs
    /\ << DiscriminatorFile(fn), SavedModel("discriminator", d_weights) >> \in gan_files
    /\ << GeneratorFile(fn), SavedModel("generator", g_weights) >> \in gan_files

ReloadRestores(fn) ==
    /\ io_call.error = NoError
    /\ << d_weights, g_weights >> = save_log[fn]

\* C11: save(filename) creates the directory of filename if needed and writes
\* '<base>-discriminator.h5' and '<base>-generator.h5', <base> being filename
\* without its extension, for every filename, one without a directory part
\* included; reload(filename) after save(filename) restores the discriminator
\* and the generator that were saved.
C11_SaveReloadRoundTrip ==
    /\ io_call.op = "save" => SaveDone(io_call.filename)
    /\ (io_call.op = "reload" /\ save_log[io_call.filename] # Unsaved)
          => ReloadRestores(io_call.filename)

\* the same, for the filenames that have a directory part
SaveReloadWithDirectory ==
    /\ (io_call.op = "save" /\ dirname(io_call.filename) # << >>)
          => SaveDone(io_call.filename)
    /\ (/\ io_call.op = "reload"
        /\ dirname(io_call.filename) # << >>
        /\ save_log[io_call.filename] # Unsaved)
          => ReloadRestores(io_call.filename)

SaveReloadReached ==
    /\ io_call.op = "reload" /\ io_call.filename = FN_DEEP
    /\ save_log[FN_DEEP] = << 1, 0 >>
    /\ d_weights = 1 /\ g_weights = 0
    /\ \E f \in gan_files : f[2] = SavedModel("generator", 1)

-----------------------------------------------------------------------------
(* ImagesCallback (ImagesCallback.py).  The pixels of an image belong to   *)
(* the generator: an image file holds the epoch and the index it was       *)
(* written for.  Keras calls on_epoch_end with consecutive epoch numbers,  *)
(* starting at the initial epoch of fit.                                   *)

MaxImg == 3          \* num_img
MaxEpochs == 2       \* epochs of one fit

\* str(n) for any n >= 0
RECURSIVE Decimal(_)
Decimal(n) == IF n < 10 THEN << Digit(n) >> ELSE Decimal(n \div 10) \o << Digit(n % 10) >>

DigitValue(c) == CHOOSE n \in 0..9 : Digit(n) = c

\* the format specification '0<w>d': at least w characters, filled with zeros
RECURSIVE ZeroPad(_, _)
ZeroPad(digits, width) ==
    IF Len(digits) >= width THEN digits ELSE ZeroPad(<< "0" >> \o digits, width)

EPOCH == << "e","p","o","c","h" >>

\* one replacement field '{name}' or '{name:0<w>d}'
FormatField(field, epoch, i) ==
    LET parts == split(field, ":")
        value == IF parts[1] = EPOCH THEN epoch ELSE i
    IN IF Len(parts) = 1 THEN Decimal(value)
       ELSE ZeroPad(Decimal(value), DigitValue(parts[2][2]))

\* str.format(epoch=epoch, i=i)
RECURSIVE format(_, _, _)
format(pattern, epoch, i) ==
    IF pattern = << >> THEN << >>
    ELSE IF Head(pattern) = "{"
         THEN LET close == CHOOSE k \in 1..Len(pattern) :
                              pattern[k] = "}" /\ \A j \in 1..(k - 1) : pattern[j] # "}"
              IN FormatField(SubSeq(pattern, 2, close - 1), epoch, i)
                 \o format(SubSeq(pattern, close + 1, Len(pattern)), epoch, i)
         ELSE << Head(pattern) >> \o format(Tail(pattern), epoch, i)

\* the default of the filename argument: 'image-{epoch:03d}-{i:02d}.jpg'
DEFAULT_PATTERN ==
    << "i","m","a","g","e","-","{","e","p","o","c","h",":","0","3","d","}","-",
       "{","i",":","0","2","d","}",".","j","p","g" >>
\* a pattern without the epoch: 'im-{i}.jpg'
INDEX_PATTERN == << "i","m","-","{","i","}",".","j","p","g" >>
Patterns == { DEFAULT_PATTERN, INDEX_PATTERN }

\* the default of the run_dir argument, './run', and another directory
RUN_DEFAULT == << ".","/","r","u","n" >>
RUN_OUT == << "o","u","t" >>
RunDirs == { RUN_DEFAULT, RUN_OUT }

NumImgs == 0..MaxImg \cup { 11 }
FirstEpochs == { 0, 9, 99, 999 }

Image(epoch, i) == [image |-> << epoch, i >>]

\* line 31: filenamei = self.run_dir+'/'+self.filename.format(epoch=epoch,i=i)
MutImageName(cb, epoch, i) == cb.run_dir \o << "/" >> \o format(cb.filename, 0, i)
ImageName(cb, epoch, i) == cb.run_dir \o << "/" >> \o format(cb.filename, epoch, i)

\* plt.imsave(filenamei, image): the file is created or replaced
imsave(F, D, path, image) ==
    LET a == abspath(GAN_CWD, path)
    IN IF ParentOf(a) \in D THEN { f \in F : f[1] # a } \cup { << a, image >> } ELSE F

\* lines 43-47: the generator gives one image per latent vector
generated_images(n, epoch) == [k \in 1..n |-> Image(epoch, k - 1)]

\* save_images(images, epoch): for i, image in enumerate(images), from i on
RECURSIVE save_images(_, _, _, _, _, _)
save_images(F, D, cb, images, epoch, i) ==
    IF i >= Len(images) THEN F
    ELSE save_images(imsave(F, D, ImageName(cb, epoch, i), images[i + 1]),
                     D, cb, images, epoch, i + 1)

\* the names save_images gives to the images
ImageNames(cb, images, epoch) ==
    [k \in 1..Len(images) |-> ImageName(cb, epoch, k - 1)]

InitImages ==
    /\ callback = NoCallback /\ img_writes = << >>
    /\ img_epoch \in FirstEpochs
    /\ gan_dirs = Ancestors(GAN_CWD) /\ gan_files = {}
    /\ io_call = NoCall /\ save_log = << >>
    /\ d_weights = 0 /\ g_weights = 0
    /\ TrainIdle /\ CiIdle /\ IndexIdle

\* ImagesCallback(num_img, latent_dim, filename, run_dir), lines 12-21
NewCallback ==
    /\ ~callback.made
    /\ \E n \in NumImgs, pattern \in Patterns, run_dir \in RunDirs :
         /\ callback' = [made |-> TRUE, num_img |-> n, filename |-> pattern,
                         run_dir |-> run_dir]
         /\ gan_dirs' = makedirs(gan_dirs, run_dir).dirs
    /\ UNCHANGED << gan_files, io_call, save_log, img_epoch, img_writes >>
    /\ UNCHANGED ganVars /\ UNCHANGED ciVars /\ UNCHANGED indexVars

\* on_epoch_end(epoch), lines 40-50: the generator gives num_img images
OnEpochEnd ==
    /\ callback.made
    /\ Len(img_writes) < MaxEpochs
    /\ LET images == generated_images(callback.num_img, img_epoch)
       IN /\ gan_files' = save_images(gan_files, gan_dirs, callback, images, img_epoch, 0)
          /\ img_writes' = Append(img_writes, ImageNames(callback, images, img_epoch))
    /\ img_epoch' = img_epoch + 1
    /\ UNCHANGED << callback, gan_dirs, io_call, save_log >>
    /\ UNCHANGED ganVars /\ UNCHANGED ciVars /\ UNCHANGED indexVars

NextImages ==
    \/ NewCallback
    \/ OnEpochEnd

SpecImages == InitImages /\ [][NextImages]_vars

-----------------------------------------------------------------------------
(* Properties of ImagesCallback.                                           *)

\* the epochs that have ended, in order, and the image files of run_dir
EpochsDone == Len(img_writes)
EpochOf(k) == img_epoch - EpochsDone + (k - 1)
RunDirFiles ==
    { f \in gan_files : ParentOf(f[1]) = abspath(GAN_CWD, callback.run_dir) }

\* C12: at the end of every epoch the callback writes num_img files into
\* run_dir, one per index i of 0..num_img-1, named by the filename pattern
\* formatted with the epoch and i; with the default pattern the names of
\* distinct (epoch, i) are distinct, so after E epochs run_dir holds
\* num_img * E images and every image of an earlier epoch is still there.
C12_ImagesPerEpoch ==
    callback.made =>
      /\ \A k \in 1..EpochsDone :
           /\ Len(img_writes[k]) = callback.num_img
           /\ \A i \in 0..(callback.num_img - 1) :
                /\ img_writes[k][i + 1] =
                     callback.run_dir \o << "/" >> \o format(callback.filename, EpochOf(k), i)
                /\ \E f \in RunDirFiles :
                     f[1] = abspath(GAN_CWD, img_writes[k][i + 1])
      /\ callback.filename = DEFAULT_PATTERN =>
           /\ \A k1, k2 \in 1..EpochsDone :
                \A i1, i2 \in 1..callback.num_img :
                   img_writes[k1][i1] = img_writes[k2][i2] => k1 = k2 /\ i1 = i2
           /\ Cardinality(RunDirFiles) = callback.num_img * EpochsDone
           /\ \A k \in 1..EpochsDone : \A i \in 0..(callback.num_img - 1) :
                << abspath(GAN_CWD, img_writes[k][i + 1]), Image(EpochOf(k), i) >>
                   \in RunDirFiles

C12_Witness ==
    /\ callback.made /\ callback.filename = DEFAULT_PATTERN
    /\ callback.num_img = 3
    /\ EpochsDone = 2 /\ img_epoch = 101
    /\ Cardinality(RunDirFiles) = 6
    /\ img_writes[2][3] = RUN_DEFAULT \o
         << "/","i","m","a","g","e","-","1","0","0","-","0","2",".","j","p","g" >>

\* with a pattern that does not hold the epoch, an epoch replaces the images
\* of the epoch before
ImagesReplacedReached ==
    /\ callback.made /\ callback.filename = INDEX_PATTERN
    /\ callback.num_img = 3 /\ EpochsDone = 2
    /\ Cardinality(RunDirFiles) = 3

-----------------------------------------------------------------------------
(* Properties of the report during a session of run_profile.               *)

\* the notebook whose start has been reported and whose end has not: it is
\* being executed, or its execution has stopped the session
NotebookOpen == pc = "executing" \/ (pc = "aborted" /\ error = "Exception")
OpenRunId == notebooks[idx][1]

FieldIs(r, k, v) == k \in DOMAIN r /\ r[k] = v
EntryUnfinished(e) ==
    /\ FieldIs(e, "state", Unfinished)
    /\ FieldIs(e, "duration", Unfinished)
    /\ FieldIs(e, "end", Empty)
MetadataUnfinished(report) ==
    /\ Has(report, META)
    /\ FieldIs(Get(report, META), "end", Unfinished)
    /\ FieldIs(Get(report, META), "duration", Unfinished)

\* a step of the session after which the entry of k is no longer what the
\* start update wrote
EntryLeavesUnfinished(k) ==
    /\ Has(report_file.content, k)
    /\ EntryUnfinished(Get(report_file.content, k))
    /\ ~(/\ report_file'.exists
         /\ Has(report_file'.content, k)
         /\ EntryUnfinished(Get(report_file'.content, k)))

MetadataLeavesUnfinished ==
    /\ MetadataUnfinished(report_file.content)
    /\ ~(report_file'.exists /\ MetadataUnfinished(report_file'.content))

EndUpdateOf(k) == pc = "executing" /\ pc' = "save" /\ k = OpenRunId
CompleteStep == pc = "loop" /\ idx > Len(notebooks) /\ pc' = "done"

\* C13: in a session, at every point between the start update and the end
\* update of a notebook the report file has the state and the duration of that
\* run equal to 'Unfinished...', its end equal to '', and the end and duration
\* of '_metadata_' equal to 'Unfinished...'.  Once init_ci_report has run, an
\* entry leaves 'Unfinished...' only by the end update of its run, and the
\* '_metadata_' end and duration only by complete_ci_report; a session stopped
\* during an execution leaves the entry 'Unfinished...'.
C13_ReportUnfinishedWhileRunning ==
    /\ [](NotebookOpen =>
            /\ report_file.exists
            /\ Occurrences(report_file.content, OpenRunId) = 1
            /\ EntryUnfinished(Get(report_file.content, OpenRunId))
            /\ MetadataUnfinished(report_file.content))
    /\ [][ReportInitialised =>
            /\ \A k \in Keys(report_file.content) \ {META} :
                  EntryLeavesUnfinished(k) => EndUpdateOf(k)
            /\ MetadataLeavesUnfinished => CompleteStep]_vars

\* the second notebook of a session stops it; the first one ended with an error
C13_Witness ==
    /\ pc = "aborted" /\ error = "Exception"
    /\ Len(kernel_runs) = 2
    /\ kernel_runs[1].outcome = "CellExecutionError"
    /\ Get(report_file.content, kernel_runs[1].run_id).state = STATE_ERROR
    /\ EntryUnfinished(Get(report_file.content, kernel_runs[2].run_id))
    /\ MetadataUnfinished(report_file.content)

-----------------------------------------------------------------------------
(* Properties of init_ci_report and of the entries of earlier sessions.    *)

RunEntries(report) == SelectSeq(report, LAMBDA p : p[1] # META)

\* the step in which init_ci_report runs
InitStep == pc = "start" /\ ReportInitialised'

\* the metadata of the session: the '_metadata_' of the profile
SessionMetadata == Get(profile, META)

\* the run whose start or end is reported by a step
ReportedRunIds ==
    IF (pc = "loop" /\ pc' = "executing") \/ (pc = "executing" /\ pc' = "save")
    THEN { notebooks[idx][1] } ELSE {}

\* C14: init_ci_report with reset=True, or without a report file, starts from
\* a report that holds '_metadata_' only; with reset=False and a report file
\* it keeps every run entry of the file.  From then on a step of run_profile
\* changes no entry but the one of the notebook it executes, so that after
\* run_profile the earlier entries are unchanged, those of the run_ids
\* executed again excepted.  In both cases '_metadata_' holds the metadata of
\* this session, with 'reseted' equal to the reset argument.
C14_ResetOrKeepEntries ==
    /\ [][InitStep =>
            /\ report_file'.exists
            /\ RunEntries(report_file'.content) =
                 (IF reset = FALSE /\ report_file.exists
                  THEN RunEntries(report_file.content) ELSE << >>)]_vars
    /\ [][(ReportInitialised /\ report_file' # report_file) =>
            \A k \in Keys(report_file.content) \ ({META} \cup ReportedRunIds) :
               /\ Has(report_file'.content, k)
               /\ Get(report_file'.content, k) = Get(report_file.content, k)]_vars
    /\ [](ReportInitialised =>
            /\ Occurrences(report_file.content, META) = 1
            /\ FieldIs(Get(report_file.content, META), "reseted", reset)
            /\ \A f \in DOMAIN SessionMetadata :
                  FieldIs(Get(report_file.content, META), f, SessionMetadata[f])
            /\ "version" \in DOMAIN SessionMetadata
            /\ Get(report_file.content, META)["version"] # Get(OldReport, META)["version"])

\* a session without reset that finds a report: one earlier entry is kept as
\* it was, another is replaced by the execution of its run_id
C14_Witness ==
    /\ pc = "done" /\ reset = FALSE
    /\ \E k \in Keys(OldReport) \ {META} :
          /\ \A i \in 1..Len(kernel_runs) : kernel_runs[i].run_id # k
          /\ Has(report_file.content, k)
          /\ Get(report_file.content, k) = Get(OldReport, k)
    /\ \E k \in Keys(OldReport) \ {META} :
          /\ \E i \in 1..Len(kernel_runs) : kernel_runs[i].run_id = k
          /\ Has(report_file.content, k)
          /\ Get(report_file.content, k) # Get(OldReport, k)
          /\ Get(report_file.content, k).state = STATE_OK

\* a session with reset that finds a report: the earlier entries are gone
ResetDropsEntriesReached ==
    /\ pc = "done" /\ reset = TRUE
    /\ kernel_runs # << >>
    /\ \E k \in Keys(OldReport) \ {META} : ~Has(report_file.content, k)
    /\ Get(report_file.content, META)["reseted"] = TRUE

-----------------------------------------------------------------------------
(* Properties of the working directory of run_profile.                     *)

\* <top_dir>/<notebook_dir> resolved from the directory the session started in
NotebookDirFromHome(run_id) ==
    abspath(home, top_dir \o << "/" >> \o AboutOf(run_id)["notebook_dir"])

RunsInNotebookDir ==
    \A i \in 1..Len(kernel_runs) :
        kernel_runs[i].cwd = NotebookDirFromHome(kernel_runs[i].run_id)

\* every directory and every notebook the profiles name exists: no step fails
\* to enter a directory or to read a notebook (the session is not stopped
\* before the execution of the entry it has reached)
EntryExecuted ==
    /\ kernel_runs # << >>
    /\ kernel_runs[Len(kernel_runs)].run_id = notebooks[idx][1]
NoNotebookLost == ~(pc = "aborted" /\ error = "FileNotFoundError" /\ ~EntryExecuted)

HomeBetweenNotebooks == (ReportInitialised /\ pc \in {"loop", "done"}) => cwd = home

\* C15: every notebook is read and executed with the working directory
\* <top_dir>/<notebook_dir> resolved from home, the directory run_profile was
\* started in, whatever the notebook_dir (one of several components included)
\* and with the relative top_dir '..'; after each notebook the working
\* directory is home again.
C15_NotebookRunsInItsDirectory ==
    /\ RunsInNotebookDir
    /\ NoNotebookLost
    /\ HomeBetweenNotebooks

\* the same, for the entries run so far having a notebook_dir of one component
\* or the session an absolute top_dir
NestedRelativeEntry(i) ==
    /\ ~isabs(top_dir)
    /\ In(notebooks[i][2]["notebook_dir"], "/")
RunsInItsDirectoryUnlessNested ==
    (ReportInitialised /\ \A i \in 1..Len(notebooks) :
                             (i <= idx /\ FilterMatches(filter, notebooks[i][1]))
                                => ~NestedRelativeEntry(i))
       => C15_NotebookRunsInItsDirectory

\* the second os.chdir fails for a notebook_dir of two components
SecondChdirFailsReached ==
    /\ pc = "aborted" /\ error = "FileNotFoundError"
    /\ ~isabs(top_dir)
    /\ notebooks[idx][2]["notebook_dir"] = D_GN
    /\ cwd = << REPO, D_G, D_N >>
    /\ cwd # home

-----------------------------------------------------------------------------
(* Properties of the labels of DCGAN.train_step.                           *)

\* the label a row had before the noise 0.05 * u, u in [0, 1), was added
BaseOf(label) == CHOOSE b \in {0, ONE} : label - b \in 0..(Noise(100) - 1)
LabelsReady == gan_pc \in {"discriminator", "generator", "metrics"}

\* C16: the labels of the discriminator step have 2 * batch_size rows, one per
\* row of combined_images: the first batch_size rows, the generated images,
\* have base label 1 and the last batch_size rows, the real images, base
\* label 0, before the noise; the misleading labels of the generator step are
\* batch_size rows of 0, the base label of the real images.
C16_LabelsAlignedWithImages ==
    /\ LabelsReady =>
         /\ Len(labels) = 2 * batch_size
         /\ Len(combined_images) = Len(labels)
         /\ \A i \in 1..Len(labels) :
              /\ \E b \in {0, ONE} : labels[i] - b \in 0..(Noise(100) - 1)
              /\ combined_images[i] = (IF i <= batch_size THEN "generated" ELSE "real")
              /\ combined_images[i] = "generated" => BaseOf(labels[i]) = ONE
              /\ combined_images[i] = "real" => BaseOf(labels[i]) = 0
    /\ gan_pc = "metrics" =>
         /\ Len(misleading_labels) = batch_size
         /\ \A i \in 1..batch_size : misleading_labels[i] = 0
         /\ \A i \in 1..batch_size, j \in 1..Len(labels) :
              combined_images[j] = "real" => misleading_labels[i] = BaseOf(labels[j])

C16_Witness ==
    /\ gan_pc = "metrics"
    /\ batch_size = 2
    /\ combined_images = << "generated", "generated", "real", "real" >>
    /\ labels = << 101, 103, 0, 4 >>
    /\ misleading_labels = << 0, 0 >>

====
